---- MODULE Spec2Model ----
(***************************************************************************)
(* A model of the batched down-scaling pipeline of resample_zarr:          *)
(* the window-definition engine (resampling/define_windows.py), the        *)
(* batched aggregation (resampling/down_scale.py) and the object store     *)
(* it writes to (resampling/object_store.py).                              *)
(*                                                                         *)
(* Numbers.  Every coordinate, range bound and step is a fixed-point       *)
(* number with two units per 1.0, so that 0.5 is the integer 1 and 1.0 is  *)
(* the integer 2.  Python's float() of such a value is exact.  int() of it *)
(* truncates to a whole number (IntTrunc).  A mean or a midpoint is a      *)
(* fraction <<numerator, denominator>> in lowest terms; <<0, 0>> is NaN.   *)
(***************************************************************************)
EXTENDS Integers, Sequences, FiniteSets, TLC

VARIABLES
    \* arguments of down_scale_in_batches
    resampler,          \* the list of ResamplerSpecs
    ds,                 \* the source dataset (dims, coords, data)
    variables,          \* the variable names to process
    batch_size,
    workers,
    over_write,
    start_batch,        \* <<>> is None, <<n>> is n
    end_batch,          \* <<>> is None, <<n>> is n
    \* the object store
    s3,                 \* path -> "absent" | "file" | "dir"
    zarr,               \* the dataset stored at bucket/dest_zarr
    prev,               \* history: zarr as it was when the call started
    \* the orchestration
    pc,                 \* position of the orchestration
    exists,             \* result of check_zarr_exists
    var_idx,            \* 1-based cursor in variables
    batch_start,        \* the loop variable i: offset of the batch
    tasks,              \* the futures of the batch in flight
    results,            \* the list _get_means_threaded fills
    \* define_windows
    k,                  \* 1-based cursor in resampler
    start, stop, step, invert,   \* locals of _process_resampler_dimension
    current, index,     \* locals of the interval loop
    intervals, indices, \* lists built by the interval loop
    dimensions,         \* ordered dict: dimension name -> interval list
    dimension_indices,  \* ordered dict: dimension name -> index list
    dims_with_coords,   \* the window list
    dims_with_indices,  \* the parallel index list
    \* one operation called on its own
    call,               \* the operation and its arguments (<<>>: none)
    mem,                \* the locals of the operation
    out                 \* what the operation returned or raised (<<>>: not yet)

inputs == <<resampler, ds, variables, batch_size, workers, over_write,
            start_batch, end_batch, prev>>
storevars == <<s3, zarr>>
runvars == <<exists, var_idx, batch_start, tasks, results>>
winvars == <<k, start, stop, step, invert, current, index, intervals, indices,
             dimensions, dimension_indices, dims_with_coords,
             dims_with_indices>>
callvars == <<call, mem, out>>
vars == <<inputs, storevars, runvars, pc, winvars, callvars>>

-----------------------------------------------------------------------------
(* Bounds of the model *)

\* range bounds are drawn from 0..MaxVal (fixed-point, so 0.0 .. MaxVal/2)
MaxVal == 3
\* steps are drawn from 0..MaxStep (fixed-point)
MaxStep == 4
\* an unresampled dimension has 1..MaxNative native positions, with
\* coordinates drawn from 0..MaxNative
MaxNative == 2
\* batch sizes are drawn from 1..MaxBatchSize
MaxBatchSize == 2
\* pool sizes are drawn from 1..MaxWorkers
MaxWorkers == 2

-----------------------------------------------------------------------------
(* Arithmetic helpers *)

Min(a, b) == IF a < b THEN a ELSE b
Abs(a) == IF a < 0 THEN -a ELSE a

\* float(n) of a Python int n, as a fixed-point number
Whole(n) == 2 * n

\* int(value): truncation toward zero, as a fixed-point number
IntTrunc(v) == IF v >= 0 THEN Whole(v \div 2) ELSE -Whole((-v) \div 2)

Reverse(s) == [i \in 1..Len(s) |-> s[Len(s) + 1 - i]]


-----------------------------------------------------------------------------
(* Values of the window engine *)

\* A float or np.datetime64 scalar used as an interval (a degenerate window).
Scalar(typ, v) == [kind |-> "scalar", typ |-> typ, v |-> <<v>>]
\* A Python list used as an interval: [start, stop] or [i].
Pair(typ, a, b) == [kind |-> "list", typ |-> typ, v |-> <<a, b>>]
Single(i) == [kind |-> "list", typ |-> "num", v |-> <<Whole(i)>>]

\* Python dicts keep insertion order: a dict is a sequence of records
\* [name, val]; update() replaces the value of a present key in place and
\* appends an absent key.
Keys(d) == [i \in 1..Len(d) |-> d[i].name]
KeySet(d) == {d[i].name : i \in 1..Len(d)}
Values(d) == [i \in 1..Len(d) |-> d[i].val]
Get(d, name) == (CHOOSE e \in {d[i] : i \in 1..Len(d)} : e.name = name).val
DictUpdate(d, name, val) ==
    IF name \in KeySet(d)
    THEN [i \in 1..Len(d) |->
             IF d[i].name = name THEN [name |-> name, val |-> val] ELSE d[i]]
    ELSE Append(d, [name |-> name, val |-> val])

\* convert_to_timedelta: np.timedelta64(int(value), 'D')
convert_to_timedelta(value) == IntTrunc(value)

\* next_interval = min(current + step, stop)
NextIntervalUnclamped(cur, stp, stp_end) == cur + stp
next_interval(cur, stp, stp_end) == Min(cur + stp, stp_end)

\* intervals[::-1] when invert, in the handlers' epilogue
ApplyInvertNever(ivs, inv) == ivs
ApplyInvert(ivs, inv) == IF inv THEN Reverse(ivs) ELSE ivs

-----------------------------------------------------------------------------
(* define_windows: the loop over the resampler *)

Return ==
    /\ dimensions' = DictUpdate(dimensions, resampler[k].dimension, intervals')
    /\ dimension_indices' =
           DictUpdate(dimension_indices, resampler[k].dimension, indices')
    /\ k' = k + 1
    /\ pc' = "resampler"

\* _process_resampler_dimension up to the dispatch on the axis type, and the
\* handler's initialisation (intervals = [], indices = [], index = 0,
\* current = start)
ProcessResamplerDimension ==
    /\ pc = "resampler"
    /\ k <= Len(resampler)
    /\ LET dimension == resampler[k] IN
         /\ IF dimension.scalar
            THEN /\ start' = dimension.range[1]
                 /\ stop' = dimension.range[1]
                 /\ step' = IF dimension.typ = "dt"
                            THEN convert_to_timedelta(Whole(1))
                            ELSE Whole(1)
            ELSE /\ start' = dimension.range[1]
                 /\ stop' = dimension.range[2]
                 /\ step' = IF dimension.typ = "dt"
                            THEN convert_to_timedelta(dimension.step)
                            ELSE dimension.step
         /\ invert' = dimension.invert
         /\ pc' = IF dimension.typ = "dt" THEN "while_datetime"
                  ELSE "handle_numeric"
    /\ intervals' = <<>>
    /\ indices' = <<>>
    /\ index' = 0
    /\ current' = start'
    /\ UNCHANGED <<callvars, inputs, storevars, runvars, k, dimensions, dimension_indices,
                   dims_with_coords, dims_with_indices>>

\* _handle_numeric_dimension, start == stop
HandleNumericDegenerate ==
    /\ pc = "handle_numeric"
    /\ start = stop
    /\ intervals' = Append(intervals, Scalar("num", start))
    /\ indices' = Append(indices, index)
    /\ Return
    /\ UNCHANGED <<callvars, inputs, storevars, runvars, start, stop, step, invert, current, index,
                   dims_with_coords, dims_with_indices>>

\* HandleNumericSingle with the elif branch lost: the range is walked
HandleNumericSingleWalked ==
    /\ pc = "handle_numeric"
    /\ start # stop
    /\ Abs(stop - start) < step
    /\ pc' = "while_numeric"
    /\ UNCHANGED <<callvars, inputs, storevars, runvars, winvars>>

\* _handle_numeric_dimension, abs(stop - start) < step
HandleNumericSingle ==
    /\ pc = "handle_numeric"
    /\ start # stop
    /\ Abs(stop - start) < step
    /\ intervals' = Append(intervals, Pair("num", start, stop))
    /\ indices' = Append(indices, index)
    /\ Return
    /\ UNCHANGED <<callvars, inputs, storevars, runvars, start, stop, step, invert, current, index,
                   dims_with_coords, dims_with_indices>>

\* _handle_numeric_dimension, the else branch: enter the while loop
HandleNumericElse ==
    /\ pc = "handle_numeric"
    /\ start # stop
    /\ ~(Abs(stop - start) < step)
    /\ pc' = "while_numeric"
    /\ UNCHANGED <<callvars, inputs, storevars, runvars, winvars>>

\* one iteration of `while current < stop` (either handler).  The list is
\* capped at MaxVal + 1 entries: a loop that ends makes at most MaxVal
\* iterations, one that does not end stays here.
WhileBody(typ) ==
    /\ current < stop
    /\ Len(intervals) <= MaxVal
    /\ LET nxt == next_interval(current, step, stop) IN
         /\ intervals' = Append(intervals, Pair(typ, current, nxt))
         /\ indices' = Append(indices, index)
         /\ current' = nxt
         /\ index' = index + 1
    /\ UNCHANGED <<callvars, inputs, storevars, runvars, pc, k, start, stop, step, invert,
                   dimensions, dimension_indices, dims_with_coords,
                   dims_with_indices>>

WhileExit ==
    /\ ~(current < stop)
    /\ intervals' = ApplyInvert(intervals, invert)
    /\ indices' = indices
    /\ Return
    /\ UNCHANGED <<callvars, inputs, storevars, runvars, start, stop, step, invert, current, index,
                   dims_with_coords, dims_with_indices>>

NumericWhile == pc = "while_numeric" /\ WhileBody("num")
NumericReturn == pc = "while_numeric" /\ WhileExit
DatetimeWhile == pc = "while_datetime" /\ WhileBody("dt")
DatetimeReturn == pc = "while_datetime" /\ WhileExit


-----------------------------------------------------------------------------
(* define_windows: dimensions the resampler does not name, and the product *)

\* _get_missing_dimensions: one cell per native position; a date/time
\* coordinate contributes its values, any other coordinate the positions
\* [0], [1], ...
MissingIntervals(dim) ==
    IF dim.typ = "dt"
    THEN [i \in 1..Len(dim.coords) |-> Scalar("dt", dim.coords[i])]
    ELSE [i \in 1..Len(dim.coords) |-> Single(i - 1)]

MissingIndices(dim) == [i \in 1..Len(dim.coords) |-> i - 1]

\* _get_missing_dimensions: the two dicts it returns
MissingDims(dataset, specified) ==
    LET Missing(dim) == dim.name \notin specified IN
    SelectSeq(dataset.dims, Missing)

get_missing_dimensions(dataset, specified) ==
    LET m == MissingDims(dataset, specified) IN
    [i \in 1..Len(m) |-> [name |-> m[i].name, val |-> MissingIntervals(m[i])]]

get_missing_indices(dataset, specified) ==
    LET m == MissingDims(dataset, specified) IN
    [i \in 1..Len(m) |-> [name |-> m[i].name, val |-> MissingIndices(m[i])]]

\* dict.update(other)
RECURSIVE Update(_, _)
Update(d, other) ==
    IF other = <<>> THEN d
    ELSE Update(DictUpdate(d, Head(other).name, Head(other).val), Tail(other))

\* itertools.product(*lists): the last list varies fastest
RECURSIVE ProductFirstFastest(_)
ProductFirstFastest(lists) ==
    IF lists = <<>> THEN << <<>> >>
    ELSE LET rest == ProductFirstFastest(Tail(lists))
             h == Head(lists)
         IN [m \in 1..(Len(h) * Len(rest)) |->
                <<h[((m - 1) % Len(h)) + 1]>>
                \o rest[((m - 1) \div Len(h)) + 1]]

RECURSIVE Product(_)
Product(lists) ==
    IF lists = <<>> THEN << <<>> >>
    ELSE LET rest == Product(Tail(lists))
             h == Head(lists)
         IN [m \in 1..(Len(h) * Len(rest)) |->
                <<h[((m - 1) \div Len(rest)) + 1]>>
                \o rest[((m - 1) % Len(rest)) + 1]]

\* {dim: window for dim, window in zip(keys, combination)}
ZipDict(keys, combination) ==
    [name \in {keys[i] : i \in 1..Len(keys)} |->
        combination[CHOOSE i \in 1..Len(keys) : keys[i] = name]]

\* the window combinations, lines 264 and 267-270
WindowCombinations(dims) ==
    LET comb == Product(Values(dims))
        keys == Keys(dims)
    IN [m \in 1..Len(comb) |-> ZipDict(keys, comb[m])]

\* IndexCombinations with the product taken in the other order
IndexCombinationsFirstFastest(dim_indices) ==
    LET comb == ProductFirstFastest(Values(dim_indices))
        keys == Keys(dim_indices)
    IN [m \in 1..Len(comb) |-> ZipDict(keys, comb[m])]

\* the index combinations, lines 265 and 272-276
IndexCombinations(dim_indices) ==
    LET comb == Product(Values(dim_indices))
        keys == Keys(dim_indices)
    IN [m \in 1..Len(comb) |-> ZipDict(keys, comb[m])]

\* define_windows after the loop: lines 257-278
DefineWindowsReturn ==
    /\ pc = "resampler"
    /\ k > Len(resampler)
    /\ LET specified == {resampler[i].dimension : i \in 1..Len(resampler)}
           dims == Update(dimensions,
                          get_missing_dimensions(ds, specified))
           idxs == Update(dimension_indices,
                          get_missing_indices(ds, specified))
       IN /\ dimensions' = dims
          /\ dimension_indices' = idxs
          /\ dims_with_coords' = WindowCombinations(dims)
          /\ dims_with_indices' = IndexCombinations(idxs)
    /\ pc' = "windows"
    /\ UNCHANGED <<callvars, inputs, storevars, runvars, k, start, stop, step, invert, current,
                   index, intervals, indices>>


-----------------------------------------------------------------------------
(* _slice_dataset: label-based selection of one window *)

\* ds.sel(dim=slice(lo, hi)) on a sorted coordinate index: a label slice
\* takes both ends.  On a descending index the slice runs from lo down to hi.
\* (In every dataset of the model a window's bounds have the type of the
\* coordinate they select on.)
IsAscending(coords) == \A p \in 1..(Len(coords) - 1) : coords[p] < coords[p + 1]

Sel(coords, lo, hi) ==
    IF IsAscending(coords)
    THEN {p \in 1..Len(coords) : lo <= coords[p] /\ coords[p] <= hi}
    ELSE {p \in 1..Len(coords) : hi <= coords[p] /\ coords[p] <= lo}

\* the (start, end) a window value stands for: a 1-element list, a scalar,
\* or a [start, end] pair
WindowStart(value_range) == value_range.v[1]
WindowEnd(value_range) == value_range.v[Len(value_range.v)]

\* the positions _slice_dataset keeps on each dimension of the dataset;
\* a dimension the window does not name is kept whole
slice_dataset(dataset, window) ==
    [d \in 1..Len(dataset.dims) |->
        LET dim == dataset.dims[d] IN
        IF dim.name \in DOMAIN window
        THEN Sel(dim.coords, WindowStart(window[dim.name]),
                 WindowEnd(window[dim.name]))
        ELSE 1..Len(dim.coords)]

-----------------------------------------------------------------------------
(* Floating-point values: fractions in lowest terms, <<0, 0>> is NaN *)

NaN == <<0, 0>>
Num(n) == <<n, 1>>
IsNaN(x) == x[2] = 0

RECURSIVE GCD(_, _)
GCD(a, b) == IF b = 0 THEN a ELSE GCD(b, a % b)

\* n / d for d > 0
Frac(n, d) == LET g == GCD(Abs(n), d) IN <<n \div g, d \div g>>

-----------------------------------------------------------------------------
(* _process_window: the mean of one window *)

\* every tuple of positions, one per dimension, drawn from sel
RECURSIVE Cells(_)
Cells(sel) ==
    IF sel = <<>> THEN {<<>>}
    ELSE {<<p>> \o c : p \in Head(sel), c \in Cells(Tail(sel))}

RECURSIVE SumOf(_, _)
SumOf(data, cells) ==
    IF cells = {} THEN 0
    ELSE LET c == CHOOSE x \in cells : TRUE
         IN data[c][1] + SumOf(data, cells \ {c})

\* np.nanmean with NaN counted as a zero-valued cell
nanmean_counting_nan(data, cells) ==
    LET valid == {c \in cells : ~IsNaN(data[c])} IN
    Frac(SumOf(data, valid), Cardinality(cells))

\* np.nanmean(values): the sum of the non-NaN cells over their count
nanmean(data, cells) ==
    LET valid == {c \in cells : ~IsNaN(data[c])} IN
    Frac(SumOf(data, valid), Cardinality(valid))

\* the try block of _process_window, lines 322-335
window_mean(dataset, window, var) ==
    LET sel == slice_dataset(dataset, window)
        cells == Cells(sel)
    IN IF var \in DOMAIN dataset.data
       THEN IF sel[1] = {} \/ \A c \in cells : IsNaN(dataset.data[var][c])
            THEN NaN
            ELSE nanmean(dataset.data[var], cells)
       ELSE NaN

-----------------------------------------------------------------------------
(* ObjectStore: paths *)

bucket == "bucket"
dest_zarr == "dest.zarr"

\* f"{self._bucket}/{zarr_store_path}": a path is its sequence of components
FullPath(zarr_store_path) == <<bucket, zarr_store_path>>
\* a path handed to s3fs as it is: its first component names the bucket
BarePath(zarr_store_path) == <<zarr_store_path>>

Paths == {FullPath(dest_zarr), BarePath(dest_zarr)}

\* no dataset (nothing stored at the path)
NoDataset == [dims |-> <<>>, vars |-> <<>>]

-----------------------------------------------------------------------------
(* ObjectStore._create_empty_ds *)

\* the coordinate of one dimension: [ok, coords], ok false when the
\* construction raises
EmptyDsCoords(dim, ranges) ==
    IF dim = "time"
    THEN \* np.array(ranges, dtype='datetime64[ns]'): date/time scalars give
         \* a 1-D coordinate; lists give a 2-D array, which is no coordinate,
         \* and floats do not convert
         [ok |-> \A e \in 1..Len(ranges) :
                    ranges[e].kind = "scalar" /\ ranges[e].typ = "dt",
          coords |-> [e \in 1..Len(ranges) |-> Num(ranges[e].v[1])]]
    ELSE IF ranges = <<>>
    THEN \* ranges[0] of an empty list
         [ok |-> FALSE, coords |-> <<>>]
    ELSE IF ranges[1].kind = "list"
    THEN LET IsPair(e) == Len(e.v) = 2
             IsSingle(e) == Len(e.v) = 1
             pairs == SelectSeq(ranges, IsPair)
             singles == SelectSeq(ranges, IsSingle)
         IN \* the sum of two date/time values is a type error
            [ok |-> \A e \in 1..Len(pairs) : pairs[e].typ # "dt",
             coords |->
                 [e \in 1..Len(pairs) |->
                     Frac(pairs[e].v[1] + pairs[e].v[2], 2)]
                 \o [e \in 1..Len(singles) |-> Num(singles[e].v[1])]]
    ELSE IF Len(ranges) < 2
    THEN \* ranges[1] of a one-element list
         [ok |-> FALSE, coords |-> <<>>]
    ELSE \* np.arange(ranges[0], ranges[1])
         LET a == ranges[1].v[1]
             b == ranges[2].v[1]
             n == IF b > a THEN (b - a + Whole(1) - 1) \div Whole(1) ELSE 0
         IN [ok |-> TRUE,
             coords |-> [e \in 1..n |-> Num(a + Whole(e - 1))]]

\* the index tuples (0-based) of an array of the given shape
RECURSIVE IndexTuples(_)
IndexTuples(shape) ==
    IF shape = <<>> THEN {<<>>}
    ELSE {<<p>> \o c : p \in 0..(Head(shape) - 1),
                       c \in IndexTuples(Tail(shape))}

Shape(dataset) == [d \in 1..Len(dataset.dims) |-> Len(dataset.dims[d].coords)]

\* a dataset whose variables all hold `fill`
FilledDataset(dims, names, fill) ==
    LET shape == [d \in 1..Len(dims) |-> Len(dims[d].coords)] IN
    [dims |-> dims,
     vars |-> [var \in {names[n] : n \in 1..Len(names)} |->
                  [c \in IndexTuples(shape) |-> fill]]]

\* _create_empty_ds: [ok, ds]
create_empty_ds(coordinate_ranges, names) ==
    LET built == [d \in 1..Len(coordinate_ranges) |->
                     EmptyDsCoords(coordinate_ranges[d].name,
                                   coordinate_ranges[d].val)]
        dims == [d \in 1..Len(coordinate_ranges) |->
                    [name |-> coordinate_ranges[d].name,
                     coords |-> built[d].coords]]
    IN IF \A d \in 1..Len(built) : built[d].ok
       THEN [ok |-> TRUE, ds |-> FilledDataset(dims, names, NaN)]
       ELSE [ok |-> FALSE, ds |-> NoDataset]

-----------------------------------------------------------------------------
(* load._create_empty_ds, the free-function form of the skeleton builder *)

\* the text of ObjectStore._create_empty_ds, but for the last branch:
\* `if len(ranges) == 1: coords[dim] = ranges`
LegacyEmptyDsCoords(dim, ranges) ==
    IF dim # "time" /\ ranges # <<>> /\ ranges[1].kind # "list"
          /\ Len(ranges) = 1
    THEN [ok |-> TRUE, coords |-> <<Num(ranges[1].v[1])>>]
    ELSE EmptyDsCoords(dim, ranges)

legacy_create_empty_ds(coordinate_ranges, names) ==
    LET built == [d \in 1..Len(coordinate_ranges) |->
                     LegacyEmptyDsCoords(coordinate_ranges[d].name,
                                         coordinate_ranges[d].val)]
        dims == [d \in 1..Len(coordinate_ranges) |->
                    [name |-> coordinate_ranges[d].name,
                     coords |-> built[d].coords]]
    IN IF \A d \in 1..Len(built) : built[d].ok
       THEN [ok |-> TRUE, ds |-> FilledDataset(dims, names, NaN)]
       ELSE [ok |-> FALSE, ds |-> NoDataset]

-----------------------------------------------------------------------------
(* ObjectStore.write_zarr_batch *)

DimNames(dataset) == [d \in 1..Len(dataset.dims) |-> dataset.dims[d].name]

\* indices = [index.get(dim) for dim in dim_names]
ResolveIndex(dataset, idx) ==
    [d \in 1..Len(dataset.dims) |-> idx[dataset.dims[d].name]]

\* the bounds test without its lower bound
InBoundsAbove(dataset, indices_) ==
    \A d \in 1..Len(indices_) :
        indices_[d] < Len(dataset.dims[d].coords)

\* all(0 <= indices[i] < variable.shape[i] for i in range(len(dim_names)))
InBounds(dataset, indices_) ==
    \A d \in 1..Len(indices_) :
        0 <= indices_[d] /\ indices_[d] < Len(dataset.dims[d].coords)

\* the assignments of the loop, in order; a later pair overrides an earlier
RECURSIVE Assign(_, _, _, _)
Assign(arr, dataset, batch_values, indexes) ==
    IF batch_values = <<>> THEN arr
    ELSE Assign([arr EXCEPT ![ResolveIndex(dataset, Head(indexes))] =
                     Head(batch_values)],
                dataset, Tail(batch_values), Tail(indexes))

\* write_zarr_batch on the stored dataset: [outcome, zarr] with outcome
\* "noop" (all NaN), "raised" or "written"
write_zarr_batch(stored, variable_name, batch_values, indexes) ==
    IF \A b \in 1..Len(batch_values) : IsNaN(batch_values[b])
    THEN [outcome |-> "noop", zarr |-> stored]
    ELSE IF variable_name \notin DOMAIN stored.vars
    THEN [outcome |-> "raised", zarr |-> stored]
    ELSE IF \E b \in 1..Len(batch_values) :
               \/ \E d \in 1..Len(stored.dims) :
                      stored.dims[d].name \notin DOMAIN indexes[b]
               \/ ~InBounds(stored, ResolveIndex(stored, indexes[b]))
    THEN [outcome |-> "raised", zarr |-> stored]
    ELSE [outcome |-> "written",
          zarr |-> [stored EXCEPT !.vars[variable_name] =
                       Assign(@, stored, batch_values, indexes)]]

-----------------------------------------------------------------------------
(* ObjectStore.write_zarr_batch, called on its own, statement by statement *)

\* what an operation called on its own ends with
ReturnedValue(value) == [kind |-> "returned", value |-> value]
Raised(error) == [kind |-> "raised", error |-> error]

\* np.isnan(batch_values).all() that never holds
AllNaNNever(batch_values) == FALSE

\* np.isnan(batch_values).all()
AllNaN(batch_values) ==
    \A b \in 1..Len(batch_values) : IsNaN(batch_values[b])

\* an assignment that broadcasts the value over the whole array
SetCellBroadcast(arr, cell, value) == [c \in DOMAIN arr |-> value]

\* variable[tuple(indices)] = value
SetCell(arr, cell, value) == [arr EXCEPT ![cell] = value]

\* the number of (value, index) pairs zip yields
PairCount == Min(Len(call.batch_values), Len(call.indexes))

\* lines 269-270: an all-NaN batch returns at once
WzbCheck ==
    /\ pc = "wzb_call"
    /\ IF AllNaN(call.batch_values)
       THEN /\ out' = ReturnedValue("None")
            /\ pc' = "call_done"
       ELSE /\ pc' = "wzb_open"
            /\ UNCHANGED out
    /\ UNCHANGED <<call, mem, inputs, storevars, runvars, winvars>>

\* lines 272-274: the whole destination dataset is opened, and the
\* variable looked up in it
WzbOpen ==
    /\ pc = "wzb_open"
    /\ IF s3[FullPath(call.zarr_store_path)] # "dir"
       THEN /\ out' = Raised("NotFound")
            /\ pc' = "call_done"
            /\ UNCHANGED mem
       ELSE IF call.variable_name \notin DOMAIN zarr.vars
       THEN /\ out' = Raised("KeyError")
            /\ pc' = "call_done"
            /\ UNCHANGED mem
       ELSE /\ mem' = [ds |-> zarr, pos |-> 1]
            /\ pc' = "wzb_loop"
            /\ UNCHANGED out
    /\ UNCHANGED <<call, inputs, storevars, runvars, winvars>>

\* lines 276-283: one turn of the loop over zip(batch_values, indexes)
WzbAssign ==
    /\ pc = "wzb_loop"
    /\ mem.pos <= PairCount
    /\ LET indices_ == ResolveIndex(mem.ds, call.indexes[mem.pos]) IN
       IF InBounds(mem.ds, indices_)
       THEN /\ mem' = [ds |-> [mem.ds EXCEPT !.vars[call.variable_name] =
                                  SetCell(@, indices_,
                                          call.batch_values[mem.pos])],
                       pos |-> mem.pos + 1]
            /\ UNCHANGED <<pc, out>>
       ELSE /\ out' = Raised("IndexError")
            /\ pc' = "call_done"
            /\ UNCHANGED mem
    /\ UNCHANGED <<call, inputs, storevars, runvars, winvars>>

\* line 285: the whole dataset is written back with mode "r+"
WzbRewrite ==
    /\ pc = "wzb_loop"
    /\ mem.pos > PairCount
    /\ zarr' = mem.ds
    /\ out' = ReturnedValue("None")
    /\ pc' = "call_done"
    /\ UNCHANGED <<call, mem, inputs, s3, runvars, winvars>>

-----------------------------------------------------------------------------
(* ObjectStore.check_zarr_exists, called on its own, probe by probe *)

\* `if self._s3.exists(full_path) and ...`
CzeExists ==
    /\ pc = "cze_call"
    /\ pc' = IF s3[FullPath(call.zarr_store_path)] # "absent"
             THEN "cze_isdir" ELSE "cze_elif"
    /\ UNCHANGED <<callvars, inputs, storevars, runvars, winvars>>

\* `... and self._s3.isdir(full_path): return True`
CzeIsdir ==
    /\ pc = "cze_isdir"
    /\ IF s3[FullPath(call.zarr_store_path)] = "dir"
       THEN /\ out' = ReturnedValue(TRUE)
            /\ pc' = "call_done"
       ELSE /\ pc' = "cze_elif"
            /\ UNCHANGED out
    /\ UNCHANGED <<call, mem, inputs, storevars, runvars, winvars>>

\* `elif self._s3.exists(full_path): return False` and `else: return False`
CzeElif ==
    /\ pc = "cze_elif"
    /\ out' = ReturnedValue(FALSE)
    /\ pc' = "call_done"
    /\ UNCHANGED <<call, mem, inputs, storevars, runvars, winvars>>

\* a probe whose error leaves check_zarr_exists
CzeProbeErrorRaises ==
    /\ pc \in {"cze_call", "cze_isdir", "cze_elif"}
    /\ mem' = [e |-> "Exception"]
    /\ out' = Raised("Exception")
    /\ pc' = "call_done"
    /\ UNCHANGED <<call, inputs, storevars, runvars, winvars>>

\* a probe raises: `except Exception as e: ... return False`
CzeProbeError ==
    /\ pc \in {"cze_call", "cze_isdir", "cze_elif"}
    /\ mem' = [e |-> "Exception"]
    /\ out' = ReturnedValue(FALSE)
    /\ pc' = "call_done"
    /\ UNCHANGED <<call, inputs, storevars, runvars, winvars>>

-----------------------------------------------------------------------------
(* The skeleton builders, called on their own *)

\* what a call of a builder ends with
BuilderOutcome(made) ==
    IF made.ok THEN ReturnedValue(made.ds) ELSE Raised("Exception")

CreateEmptyDsCall ==
    /\ pc = "ced_call"
    /\ call.op = "ObjectStore._create_empty_ds"
    /\ out' = BuilderOutcome(create_empty_ds(call.coordinate_ranges,
                                             call.variables))
    /\ pc' = "call_done"
    /\ UNCHANGED <<call, mem, inputs, storevars, runvars, winvars>>

LegacyCreateEmptyDsCall ==
    /\ pc = "ced_call"
    /\ call.op = "load._create_empty_ds"
    /\ out' = BuilderOutcome(legacy_create_empty_ds(call.coordinate_ranges,
                                                    call.variables))
    /\ pc' = "call_done"
    /\ UNCHANGED <<call, mem, inputs, storevars, runvars, winvars>>

-----------------------------------------------------------------------------
(* The extraction operations: ObjectStore.extract_zarr,                     *)
(* extract_public_s3_zarr, extract_private_s3_zarr and _extract_web_nc     *)
(* share one body; the public and the web form end with a debug print.     *)

ExtractOps == {"extract_zarr", "extract_public_s3_zarr",
               "extract_private_s3_zarr", "_extract_web_nc"}
HasDebug(op) == op \in {"extract_public_s3_zarr", "_extract_web_nc"}

\* ds.rename({"lon": "longitude"}) and ds.rename({"lat": "latitude"})
Renamed(name) ==
    IF name = "lon" THEN "longitude"
    ELSE IF name = "lat" THEN "latitude" ELSE name

RenameCoords(dataset) ==
    [dataset EXCEPT !.dims =
        [d \in 1..Len(dataset.dims) |->
            [dataset.dims[d] EXCEPT !.name = Renamed(@)]]]

\* the dataset is opened and its lon/lat coordinates renamed; the local
\* ds is the opened dataset, the positions kept on each dimension, and the
\* names of the variables it holds ("Dataset") or the one it is ("DataArray")
ExtOpen ==
    /\ pc = "ext_call"
    /\ LET opened == RenameCoords(ds) IN
       mem' = [ds |-> opened,
               kept |-> [d \in 1..Len(opened.dims) |->
                            1..Len(opened.dims[d].coords)],
               type |-> "Dataset",
               names |-> DOMAIN opened.data]
    /\ pc' = "ext_sel"
    /\ UNCHANGED <<call, out, inputs, storevars, runvars, winvars>>

\* the range of a dimension in sel_kwargs, <<>> when it has none
SelRange(name) ==
    IF name = "longitude" THEN call.lon_range
    ELSE IF name = "latitude" THEN call.lat_range ELSE <<>>

\* ds = ds.sel(**sel_kwargs)
ExtSel ==
    /\ pc = "ext_sel"
    /\ mem' = [mem EXCEPT !.kept =
                  [d \in 1..Len(mem.ds.dims) |->
                      LET dim == mem.ds.dims[d] IN
                      IF SelRange(dim.name) = <<>> THEN @[d]
                      ELSE Sel(dim.coords, SelRange(dim.name)[1],
                               SelRange(dim.name)[2])]]
    /\ pc' = "ext_var"
    /\ UNCHANGED <<call, out, inputs, storevars, runvars, winvars>>

\* the variable test that takes a variable which is not there
ExtVarLenient ==
    /\ pc = "ext_var"
    /\ IF call.var = <<>>
       THEN UNCHANGED mem
       ELSE mem' = [mem EXCEPT !.type = "DataArray",
                               !.names = {call.var[1]}]
    /\ pc' = "ext_debug"
    /\ UNCHANGED <<call, out, inputs, storevars, runvars, winvars>>

\* `if var is not None: if var in ds.data_vars: ds = ds[var] else: raise`
ExtVar ==
    /\ pc = "ext_var"
    /\ IF call.var = <<>>
       THEN /\ pc' = "ext_debug"
            /\ UNCHANGED <<mem, out>>
       ELSE IF call.var[1] \in mem.names
       THEN /\ mem' = [mem EXCEPT !.type = "DataArray",
                                  !.names = {call.var[1]}]
            /\ pc' = "ext_debug"
            /\ UNCHANGED out
       ELSE /\ out' = Raised("ValueError: Variable not found in the dataset")
            /\ pc' = "call_done"
            /\ UNCHANGED mem
    /\ UNCHANGED <<call, inputs, storevars, runvars, winvars>>

\* `if debug: print(f"Data subset shape: {ds.shape}")`, where the form has
\* it: a Dataset has no attribute shape; then `return ds`
ExtReturn ==
    /\ pc = "ext_debug"
    /\ IF HasDebug(call.op) /\ call.debug /\ mem.type = "Dataset"
       THEN out' = Raised("AttributeError")
       ELSE out' = ReturnedValue([type |-> mem.type, names |-> mem.names,
                                  kept |-> mem.kept])
    /\ pc' = "call_done"
    /\ UNCHANGED <<call, mem, inputs, storevars, runvars, winvars>>

-----------------------------------------------------------------------------
(* down_scale_on_the_fly, statement by statement.  The locals are          *)
(* new_coords and slices (dicts, as sequences of records) and the position *)
(* of the loop over the resampler.                                          *)

CeilDiv(n, d) == -((-n) \div d)

\* the arange that always holds its first value
arange_never_empty(first, limit, delta) ==
    LET n == IF delta > 0 THEN CeilDiv(limit - first, delta)
             ELSE CeilDiv(first - limit, -delta)
    IN [e \in 1..(IF n > 0 THEN n ELSE 1) |-> first + (e - 1) * delta]

\* np.arange(first, limit, delta) of fixed-point numbers, delta # 0:
\* ceil((limit - first) / delta) values, none when that is not positive
arange(first, limit, delta) ==
    LET n == IF delta > 0 THEN CeilDiv(limit - first, delta)
             ELSE CeilDiv(first - limit, -delta)
    IN [e \in 1..(IF n > 0 THEN n ELSE 0) |-> first + (e - 1) * delta]

\* np.arange(range_start + step / 2, range_end + step / 2, step): step / 2
\* of a whole step is that many half units
Centers(spec) ==
    arange(Whole(spec.range[1]) + spec.step,
           Whole(spec.range[2]) + spec.step, Whole(spec.step))

\* `new_coords = {}; slices = {}`
OtfBegin ==
    /\ pc = "otf_call"
    /\ mem' = [new_coords |-> <<>>, slices |-> <<>>, pos |-> 1]
    /\ pc' = "otf_loop"
    /\ UNCHANGED <<call, out, inputs, storevars, runvars, winvars>>

\* one pass of `for spec in resampler`; numpy refuses a zero step with an
\* error that depends on the argument types and the build
OtfSpec ==
    /\ pc = "otf_loop"
    /\ mem.pos <= Len(call.resampler)
    /\ LET spec == call.resampler[mem.pos] IN
       IF spec.step = 0
       THEN /\ out' \in {Raised("ZeroDivisionError"),
                         Raised("ValueError: Maximum allowed size exceeded")}
            /\ pc' = "call_done"
            /\ UNCHANGED mem
       ELSE IF Len(Centers(spec)) = 0
       THEN /\ out' = Raised("ValueError: Generated new coordinates are empty")
            /\ pc' = "call_done"
            /\ UNCHANGED mem
       ELSE /\ mem' = [new_coords |->
                           Append(mem.new_coords,
                                  [name |-> spec.dimension,
                                   coords |-> IF spec.invert
                                              THEN Reverse(Centers(spec))
                                              ELSE Centers(spec)]),
                       slices |->
                           Append(mem.slices,
                                  IF spec.invert
                                  THEN [name |-> spec.dimension,
                                        from |-> spec.range[2],
                                        to |-> spec.range[1], by |-> -1]
                                  ELSE [name |-> spec.dimension,
                                        from |-> spec.range[1],
                                        to |-> spec.range[2], by |-> 1]),
                       pos |-> mem.pos + 1]
            /\ pc' = "otf_loop"
            /\ UNCHANGED out
    /\ UNCHANGED <<call, inputs, storevars, runvars, winvars>>

\* the positions ds.sel(dim=slice(from, to, by)) keeps on a dimension: the
\* labels between the two bounds, both included; a descending step swaps
\* the bounds and walks the same labels backwards
Sliced(coords, sl) ==
    IF sl.by < 0 THEN Sel(coords, sl.to, sl.from)
    ELSE Sel(coords, sl.from, sl.to)

\* the entry of a dict for a name, <<>> when it has none
Entry(dict, name) ==
    IF \E e \in 1..Len(dict) : dict[e].name = name
    THEN <<dict[CHOOSE e \in 1..Len(dict) : dict[e].name = name]>>
    ELSE <<>>

\* ds.sel(**slices), interp onto new_coords of every dimension that is
\* not empty after the selection, transpose to the original order, return:
\* the coordinates of the returned dataset (half units for new centers)
OtfReturn ==
    /\ pc = "otf_loop"
    /\ mem.pos > Len(call.resampler)
    /\ out' = ReturnedValue(
           [d \in 1..Len(ds.dims) |->
               LET dim == ds.dims[d]
                   sl == Entry(mem.slices, dim.name)
                   nc == Entry(mem.new_coords, dim.name)
               IN IF sl = <<>>
                  THEN [name |-> dim.name,
                        coords |-> [p \in 1..Len(dim.coords) |->
                                       Whole(dim.coords[p])]]
                  ELSE IF Sliced(dim.coords, sl[1]) = {}
                  THEN [name |-> dim.name, coords |-> <<>>]
                  ELSE [name |-> dim.name, coords |-> nc[1].coords]])
    /\ pc' = "call_done"
    /\ UNCHANGED <<call, mem, inputs, storevars, runvars, winvars>>

-----------------------------------------------------------------------------
(* expand_to_global_coverage, in make_global.py and in transform.py.       *)
(* Coordinates are whole degrees.  The returned dataset holds, per         *)
(* variable, a value at every 0-based index tuple of the global grid.      *)

\* the global axes: make_global stops short of 90 and 180, transform
\* includes them
global_axis(variant, lowest, highest, step_size) ==
    IF variant = "make_global" THEN arange(lowest, highest, step_size)
    ELSE arange(lowest, highest + step_size, step_size)

\* np.searchsorted(axis, value): the number of entries below value
searchsorted(axis, value) ==
    Cardinality({p \in 1..Len(axis) : axis[p] < value})

\* a[lo:hi] of an axis of the given length: Python counts a negative bound
\* from the end and clips both bounds to the axis
SliceBound(bound, length) ==
    IF bound < 0 THEN (IF bound + length < 0 THEN 0 ELSE bound + length)
    ELSE Min(bound, length)

PySlice(lo, hi, length) ==
    LET a == SliceBound(lo, length)
        b == SliceBound(hi, length)
    IN [from |-> a, size |-> IF b > a THEN b - a ELSE 0]

\* an axis of `size` values is assigned to `target` places: equal sizes, or
\* one value repeated
Broadcasts(size, target) == size = target \/ size = 1

\* the offset the time-bearing branch of make_global puts on every bound
IndexOffset(variant, has_time) ==
    IF variant = "make_global" /\ has_time THEN 1 ELSE 0

\* np.flip along latitude, then the 0-based entry (i, j) of the rectangle,
\* for the leading index t (<<>> or <<time position>>)
FlippedEntry(dataset, var, t, i, j, n, m) ==
    dataset.data[var][[e \in 1..Len(t) |-> t[e] + 1]
                      \o <<n - (IF n = 1 THEN 0 ELSE i),
                           1 + (IF m = 1 THEN 0 ELSE j)>>]

expand_to_global_coverage(variant, dataset, step_lon, step_lat) ==
    LET names == DimNames(dataset)
        has_time == \E d \in 1..Len(names) : names[d] = "time"
        lead == IF has_time THEN 1 ELSE 0
        times == IF has_time THEN dataset.dims[1].coords ELSE <<>>
        original_lat == dataset.dims[lead + 1].coords
        original_lon == dataset.dims[lead + 2].coords
        global_lat == global_axis(variant, -90, 90, step_lat)
        global_lon == global_axis(variant, -180, 180, step_lon)
        n == Len(original_lat)
        m == Len(original_lon)
        off == IndexOffset(variant, has_time)
        lat_start_idx == searchsorted(global_lat, original_lat[n])
        lon_start_idx == searchsorted(global_lon, original_lon[1])
        rows == PySlice(lat_start_idx - off, lat_start_idx + n - off,
                        Len(global_lat))
        cols == PySlice(lon_start_idx - off, lon_start_idx + m - off,
                        Len(global_lon))
        shape == (IF has_time THEN <<Len(times)>> ELSE <<>>)
                    \o <<Len(global_lat), Len(global_lon)>>
    IN IF variant = "transform" /\ has_time
       THEN \* a 3-D array assigned to a window of a 2-D variable
            Raised("ValueError")
       ELSE IF ~(Broadcasts(n, rows.size) /\ Broadcasts(m, cols.size))
       THEN Raised("ValueError")
       ELSE ReturnedValue(
           [dims |-> (IF has_time
                      THEN <<[name |-> "time", coords |-> times]>>
                      ELSE <<>>)
                     \o <<[name |-> "latitude", coords |-> global_lat],
                          [name |-> "longitude", coords |-> global_lon]>>,
            vars |->
               [var \in DOMAIN dataset.data |->
                   [c \in IndexTuples(shape) |->
                       LET i == c[lead + 1] - rows.from
                           j == c[lead + 2] - cols.from
                       IN IF 0 <= i /\ i < rows.size
                             /\ 0 <= j /\ j < cols.size
                          THEN FlippedEntry(dataset, var,
                                            SubSeq(c, 1, lead), i, j, n, m)
                          ELSE NaN]]])

ExpandToGlobalCoverage ==
    /\ pc = "egc_call"
    /\ out' = expand_to_global_coverage(call.variant, ds, call.step_lon,
                                        call.step_lat)
    /\ pc' = "call_done"
    /\ UNCHANGED <<call, mem, inputs, storevars, runvars, winvars>>

-----------------------------------------------------------------------------
(* Config._set_config: from_dict(data_class=Settings,                      *)
(* data=dict(toml.load(filename))).  The file is a table from keys to      *)
(* values, a value being a TOML string or something else.                  *)

\* the fields of the dataclass Settings, all of type str, in order
SettingsFields == <<"bucket", "endpoint_url", "aws_access_key_id",
                    "aws_secret_access_key", "aws_session_token">>

\* from_dict under dacite's default Config (check_types on, strict off):
\* for each field in order, a key that is not in the data raises
\* MissingValueError (no field has a default), a value that is not an
\* instance of the field's type raises WrongTypeError; keys of the data
\* that are no field are not looked at
FirstFailing(data) ==
    {f \in 1..Len(SettingsFields) :
        /\ \/ SettingsFields[f] \notin DOMAIN data
           \/ data[SettingsFields[f]].typ # "str"
        /\ \A g \in 1..(f - 1) :
              /\ SettingsFields[g] \in DOMAIN data
              /\ data[SettingsFields[g]].typ = "str"}

from_dict(data) ==
    IF FirstFailing(data) = {}
    THEN ReturnedValue([f \in {SettingsFields[g] :
                                  g \in 1..Len(SettingsFields)} |->
                           data[f].v])
    ELSE LET f == CHOOSE g \in FirstFailing(data) : TRUE IN
         IF SettingsFields[f] \notin DOMAIN data
         THEN Raised("MissingValueError")
         ELSE Raised("WrongTypeError")

SetConfig ==
    /\ pc = "cfg_call"
    /\ out' = from_dict(call.file)
    /\ pc' = "call_done"
    /\ UNCHANGED <<call, mem, inputs, storevars, runvars, winvars>>

-----------------------------------------------------------------------------
(* _parse_event_log.  A log file is a sequence of lines; a line is what    *)
(* the event logger wrote: its time stamp and its message, the message     *)
(* being "Downscaling dataset: <name>", ">> Working on VAR <name> - batch  *)
(* ..." or something else.  A name is spelled as a sequence of characters. *)

WordCharacters ==
    {"a", "b", "e", "h", "l", "m", "p", "s", "t", "y", "_", "0"}

\* the longest prefix of a spelling that [\w_]+ can take
RECURSIVE WordPrefix(_)
WordPrefix(spelling) ==
    IF spelling = <<>> THEN <<>>
    ELSE IF Head(spelling) \in WordCharacters
    THEN <<Head(spelling)>> \o WordPrefix(Tail(spelling))
    ELSE <<>>

\* pattern_downscaling.match(line): the message is a dataset line and its
\* name starts with a word character; the group is the word prefix
match_downscaling(line) ==
    IF line.kind = "dataset" /\ WordPrefix(line.name) # <<>>
    THEN <<[timestamp |-> line.timestamp, dataset |-> WordPrefix(line.name)]>>
    ELSE <<>>

\* pattern_var.match(line): the message is a batch line and the characters
\* between "VAR " and " - batch" are all word characters
match_var(line) ==
    IF line.kind = "var" /\ line.name # <<>>
          /\ WordPrefix(line.name) = line.name
    THEN <<[timestamp |-> line.timestamp, var |-> line.name]>>
    ELSE <<>>

\* the lists and the set of the parser are set up
PelBegin ==
    /\ pc = "pel_call"
    /\ mem' = [timestamps |-> <<>>, datasets |-> <<>>, vars |-> <<>>,
               seen_vars |-> {}, pos |-> 1]
    /\ pc' = "pel_loop"
    /\ UNCHANGED <<call, out, inputs, storevars, runvars, winvars>>

\* `if match_var: ... if var_name not in seen_vars:`
RecordsVar(matched, seen) ==
    IF matched = <<>> THEN FALSE ELSE matched[1].var \notin seen

\* one pass of `for line in f`; None is <<>>
PelLine ==
    /\ pc = "pel_loop"
    /\ mem.pos <= Len(call.lines)
    /\ LET line == call.lines[mem.pos]
           md == match_downscaling(line)
           mv == match_var(line)
           after_dataset ==
               IF md # <<>>
               THEN [mem EXCEPT
                       !.timestamps = Append(@, md[1].timestamp),
                       !.datasets = Append(@, <<md[1].dataset>>),
                       !.vars = Append(@, <<>>)]
               ELSE mem
           after_var ==
               IF RecordsVar(mv, mem.seen_vars)
               THEN [after_dataset EXCEPT
                       !.timestamps = Append(@, mv[1].timestamp),
                       !.datasets = Append(@, <<>>),
                       !.vars = Append(@, <<mv[1].var>>),
                       !.seen_vars = @ \cup {mv[1].var}]
               ELSE after_dataset
       IN mem' = [after_var EXCEPT !.pos = @ + 1]
    /\ UNCHANGED <<call, out, pc, inputs, storevars, runvars, winvars>>

\* the orders sort_values(by='timestamp') can leave n rows in: ascending
\* time stamps, rows of one time stamp in any order
SortedOrders(timestamps) ==
    {order \in [1..Len(timestamps) -> 1..Len(timestamps)] :
        /\ \A a, b \in 1..Len(timestamps) : a # b => order[a] # order[b]
        /\ \A a \in 1..(Len(timestamps) - 1) :
              timestamps[order[a]] <= timestamps[order[a + 1]]}

\* the data frame of the three lists, sorted by time stamp, is returned
PelReturn ==
    /\ pc = "pel_loop"
    /\ mem.pos > Len(call.lines)
    /\ \E order \in SortedOrders(mem.timestamps) :
          out' = ReturnedValue(
                     [r \in 1..Len(mem.timestamps) |->
                         [timestamp |-> mem.timestamps[order[r]],
                          dataset |-> mem.datasets[order[r]],
                          var |-> mem.vars[order[r]]]])
    /\ pc' = "call_done"
    /\ UNCHANGED <<call, mem, inputs, storevars, runvars, winvars>>

-----------------------------------------------------------------------------
(* down_scale_in_batches: the destination store *)

max_retries == 5

\* check_zarr_exists: the path exists and is directory-shaped
CheckZarrExists ==
    /\ pc = "windows"
    /\ exists' = (s3[FullPath(dest_zarr)] = "dir")
    /\ pc' = IF exists'
             THEN IF over_write THEN "delete" ELSE "batches"
             ELSE "create"
    /\ UNCHANGED <<callvars, inputs, storevars, var_idx, batch_start, tasks, results,
                   winvars>>

\* check_zarr_exists when a probe of the store raises: the error is
\* swallowed and the answer is False
CheckZarrExistsError ==
    /\ pc = "windows"
    /\ exists' = FALSE
    /\ pc' = "create"
    /\ UNCHANGED <<callvars, inputs, storevars, var_idx, batch_start, tasks, results,
                   winvars>>

\* delete_zarr(dest_zarr): exists, isdir and rm are asked about the path as
\* it was given, without the bucket
DeleteZarr ==
    /\ pc = "delete"
    /\ IF s3[BarePath(dest_zarr)] = "absent"
       THEN /\ pc' = "raised"      \* FileNotFoundError
            /\ UNCHANGED s3
       ELSE /\ s3' = [s3 EXCEPT ![BarePath(dest_zarr)] = "absent"]
            /\ pc' = "create"
    /\ UNCHANGED <<callvars, inputs, zarr, runvars, winvars>>

\* delete_zarr when rm raises: logged and raised again
DeleteZarrError ==
    /\ pc = "delete"
    /\ s3[BarePath(dest_zarr)] # "absent"
    /\ pc' = "raised"
    /\ UNCHANGED <<callvars, inputs, storevars, runvars, winvars>>

\* create_empty_zarr: the skeleton is written with mode "w", which replaces
\* whatever the path holds
CreateEmptyZarr ==
    /\ pc = "create"
    /\ LET made == create_empty_ds(dimensions, variables) IN
         IF made.ok
         THEN /\ zarr' = made.ds
              /\ s3' = [s3 EXCEPT ![FullPath(dest_zarr)] = "dir"]
              /\ pc' = "batches"
         ELSE /\ pc' = "raised"
              /\ UNCHANGED storevars
    /\ UNCHANGED <<callvars, inputs, runvars, winvars>>

-----------------------------------------------------------------------------
(* down_scale_in_batches: the loop over variables and batches *)

total_windows == Len(dims_with_coords)

\* batch_i = int(i / batch_size)
batch_i == batch_start \div batch_size

\* start_batch <= batch_i <= end_batch, None being 0 and infinity
InRangeIgnoringEnd ==
    IF start_batch = <<>> THEN TRUE ELSE start_batch[1] <= batch_i

InRange ==
    /\ IF start_batch = <<>> THEN TRUE ELSE start_batch[1] <= batch_i
    /\ IF end_batch = <<>> THEN TRUE ELSE batch_i <= end_batch[1]

InLoop ==
    /\ pc = "batches"
    /\ var_idx <= Len(variables)
    /\ batch_start < total_windows

\* the number of windows in the batch at batch_start
BatchLen == Min(batch_size, total_windows - batch_start)

\* `continue`: the batch lies outside [start_batch, end_batch]
SkipBatch ==
    /\ InLoop
    /\ ~InRange
    /\ batch_start' = batch_start + batch_size
    /\ UNCHANGED <<callvars, inputs, storevars, pc, exists, var_idx, tasks, results,
                   winvars>>

\* what _process_window returns: (global_counter, mean)
Returned(j, mean) == <<(j - 1) + batch_start, mean>>

\* _get_means_threaded: every window of the batch is submitted to the pool.
\* A task is queued, running (retries is the local of _process_window) or
\* done (ret is what it returned, its locals are gone).
SubmitBatch ==
    /\ InLoop
    /\ InRange
    /\ tasks' = [j \in 1..BatchLen |->
                    [status |-> "queued", retries |-> 0, ret |-> <<>>]]
    /\ results' = [j \in 1..BatchLen |-> <<>>]
    /\ pc' = "pool"
    /\ UNCHANGED <<callvars, inputs, storevars, exists, var_idx, batch_start, winvars>>

\* a free worker takes the next queued task
TaskRun(j) ==
    /\ pc = "pool"
    /\ tasks[j].status = "queued"
    /\ \A h \in 1..(j - 1) : tasks[h].status # "queued"
    /\ Cardinality({h \in DOMAIN tasks : tasks[h].status = "running"})
           < workers
    /\ tasks' = [tasks EXCEPT ![j].status = "running"]
    /\ UNCHANGED <<callvars, inputs, storevars, pc, exists, var_idx, batch_start,
                   results, winvars>>

\* _process_window: the try block runs to its return
TaskSucceed(j) ==
    /\ pc = "pool"
    /\ tasks[j].status = "running"
    /\ tasks' = [tasks EXCEPT
                   ![j] = [status |-> "done", retries |-> 0,
                           ret |-> Returned(j,
                                       window_mean(ds,
                                           dims_with_coords[batch_start + j],
                                           variables[var_idx]))]]
    /\ UNCHANGED <<callvars, inputs, storevars, pc, exists, var_idx, batch_start,
                   results, winvars>>

\* TaskFail letting the last failure out of the task: the pool is abandoned
TaskFailAborting(j) ==
    /\ pc = "pool"
    /\ tasks[j].status = "running"
    /\ IF tasks[j].retries + 1 >= max_retries
       THEN pc' = "raised" /\ UNCHANGED tasks
       ELSE pc' = pc /\ tasks' = [tasks EXCEPT ![j].retries = @ + 1]
    /\ UNCHANGED <<callvars, inputs, storevars, exists, var_idx, batch_start,
                   results, winvars>>

\* TaskFail retrying once more than max_retries allows
TaskFailOffByOne(j) ==
    /\ pc = "pool"
    /\ tasks[j].status = "running"
    /\ tasks' = [tasks EXCEPT
                   ![j] = IF tasks[j].retries + 1 > max_retries
                          THEN [status |-> "done", retries |-> 0,
                                ret |-> Returned(j, NaN)]
                          ELSE [@ EXCEPT !.retries = @ + 1]]
    /\ UNCHANGED <<callvars, inputs, storevars, pc, exists, var_idx, batch_start,
                   results, winvars>>

\* _process_window: the try block raises; the task sleeps and retries, or
\* returns NaN once retries reaches max_retries
TaskFail(j) ==
    /\ pc = "pool"
    /\ tasks[j].status = "running"
    /\ tasks' = [tasks EXCEPT
                   ![j] = IF tasks[j].retries + 1 >= max_retries
                          THEN [status |-> "done", retries |-> 0,
                                ret |-> Returned(j, NaN)]
                          ELSE [@ EXCEPT !.retries = @ + 1]]
    /\ UNCHANGED <<callvars, inputs, storevars, pc, exists, var_idx, batch_start,
                   results, winvars>>

\* Collect filling the array in the order the futures complete
CollectInCompletionOrder(j) ==
    /\ pc = "pool"
    /\ tasks[j].status = "done"
    /\ LET free == {h \in DOMAIN results : results[h] = <<>>}
           first == CHOOSE h \in free : \A g \in free : h <= g
       IN results' = [results EXCEPT ![first] = tasks[j].ret[2]]
    /\ tasks' = [tasks EXCEPT ![j].status = "collected"]
    /\ UNCHANGED <<callvars, inputs, storevars, pc, exists, var_idx, batch_start,
                   winvars>>

\* as_completed hands over a finished future:
\* results[global_counter - offset] = result
Collect(j) ==
    /\ pc = "pool"
    /\ tasks[j].status = "done"
    /\ results' = [results EXCEPT
                     ![tasks[j].ret[1] - batch_start + 1] = tasks[j].ret[2]]
    /\ tasks' = [tasks EXCEPT ![j].status = "collected"]
    /\ UNCHANGED <<callvars, inputs, storevars, pc, exists, var_idx, batch_start,
                   winvars>>

\* WriteBatch not waiting for the pool: the write starts once one future is
\* collected, the places of the others taken as NaN
WriteBatchUnwaited ==
    /\ pc = "pool"
    /\ \E j \in DOMAIN tasks : tasks[j].status = "collected"
    /\ LET batch_of_indices ==
               SubSeq(dims_with_indices, batch_start + 1,
                      batch_start + BatchLen)
           means == [j \in DOMAIN results |->
                        IF results[j] = <<>> THEN NaN ELSE results[j]]
           written == write_zarr_batch(zarr, variables[var_idx], means,
                                       batch_of_indices)
       IN IF written.outcome = "raised"
          THEN /\ pc' = "raised"
               /\ UNCHANGED <<zarr, batch_start, tasks, results>>
          ELSE /\ zarr' = written.zarr
               /\ pc' = "batches"
               /\ batch_start' = batch_start + batch_size
               /\ tasks' = <<>>
               /\ results' = <<>>
    /\ UNCHANGED <<callvars, inputs, s3, exists, var_idx, winvars>>

\* every future is collected: _get_means_threaded returns the means and the
\* batch is written with write_zarr_batch
WriteBatch ==
    /\ pc = "pool"
    /\ \A j \in DOMAIN tasks : tasks[j].status = "collected"
    /\ LET batch_of_indices ==
               SubSeq(dims_with_indices, batch_start + 1,
                      batch_start + BatchLen)
           written == write_zarr_batch(zarr, variables[var_idx], results,
                                       batch_of_indices)
       IN IF written.outcome = "raised"
          THEN /\ pc' = "raised"
               /\ UNCHANGED <<zarr, batch_start, tasks, results>>
          ELSE /\ zarr' = written.zarr
               /\ pc' = "batches"
               /\ batch_start' = batch_start + batch_size
               /\ tasks' = <<>>
               /\ results' = <<>>
    /\ UNCHANGED <<callvars, inputs, s3, exists, var_idx, winvars>>

\* the batches of one variable are exhausted
FinishVariable ==
    /\ pc = "batches"
    /\ var_idx <= Len(variables)
    /\ batch_start >= total_windows
    /\ var_idx' = var_idx + 1
    /\ batch_start' = 0
    /\ UNCHANGED <<callvars, inputs, storevars, pc, exists, tasks, results, winvars>>

\* the variables are exhausted: down_scale_in_batches returns
FinishCall ==
    /\ pc = "batches"
    /\ var_idx > Len(variables)
    /\ pc' = "done"
    /\ UNCHANGED <<callvars, inputs, storevars, runvars, winvars>>

-----------------------------------------------------------------------------
(* Inputs *)

\* every ResamplerSpec for one dimension: a (start, stop) pair with a step,
\* or a single scalar (whose step is the default 1)
ResamplerSpecs(name, typ) ==
    {[dimension |-> name, typ |-> typ, scalar |-> FALSE, range |-> <<a, b>>,
      step |-> s, invert |-> iv] :
        a \in 0..MaxVal, b \in 0..MaxVal, s \in 0..MaxStep, iv \in BOOLEAN}
    \cup
    {[dimension |-> name, typ |-> typ, scalar |-> TRUE, range |-> <<a>>,
      step |-> Whole(1), invert |-> iv] : a \in 0..MaxVal, iv \in BOOLEAN}

\* a few ResamplerSpecs for a second resampled dimension
LongitudeSpecs ==
    {[dimension |-> "longitude", typ |-> "num", scalar |-> FALSE,
      range |-> <<0, 2>>, step |-> 1, invert |-> FALSE],
     [dimension |-> "longitude", typ |-> "num", scalar |-> TRUE,
      range |-> <<1>>, step |-> Whole(1), invert |-> FALSE]}

\* strictly ascending coordinate sequences of 1..MaxNative values
AscendingCoords ==
    {c \in UNION {[1..n -> 0..MaxNative] : n \in 1..MaxNative} :
        \A i \in 1..(Len(c) - 1) : c[i] < c[i + 1]}

\* the horizontal grid of every dataset: coordinates 0.0, 0.5, ...
GridCoords == [i \in 1..(MaxVal + 1) |-> i - 1]

HorizontalDims ==
    <<[name |-> "latitude", typ |-> "num", coords |-> GridCoords],
      [name |-> "longitude", typ |-> "num", coords |-> GridCoords]>>

\* a leading dimension a dataset may have besides latitude and longitude
LeadingDims ==
    {<<>>}
    \cup {<<[name |-> "depth", typ |-> "num", coords |-> c]>> :
             c \in AscendingCoords}
    \cup {<<[name |-> "time", typ |-> "dt", coords |-> c]>> :
             c \in AscendingCoords}

\* the state in which define_windows starts
WinInitState ==
    /\ pc = "resampler"
    /\ exists = FALSE /\ var_idx = 1 /\ batch_start = 0
    /\ tasks = <<>> /\ results = <<>>
    /\ k = 1
    /\ start = 0 /\ stop = 0 /\ step = 0 /\ invert = FALSE
    /\ current = 0 /\ index = 0
    /\ intervals = <<>> /\ indices = <<>>
    /\ dimensions = <<>> /\ dimension_indices = <<>>
    /\ dims_with_coords = <<>> /\ dims_with_indices = <<>>
    /\ call = <<>> /\ mem = <<>> /\ out = <<>>

\* the window engine on every ResamplerSpec for its first dimension
InitWin ==
    /\ \E first \in ResamplerSpecs("latitude", "num")
                    \cup ResamplerSpecs("time", "dt") :
       \E second \in {<<>>} \cup {<<l>> : l \in LongitudeSpecs} :
           resampler = <<first>> \o second
    /\ \E lead \in LeadingDims :
           ds = [dims |-> lead \o HorizontalDims, data |-> <<>>]
    /\ variables = <<>> /\ batch_size = 1 /\ workers = 1
    /\ over_write = TRUE /\ start_batch = <<>> /\ end_batch = <<>>
    /\ s3 = [path \in Paths |-> "absent"]
    /\ zarr = NoDataset /\ prev = NoDataset
    /\ WinInitState

NextWin ==
    \/ ProcessResamplerDimension
    \/ HandleNumericDegenerate
    \/ HandleNumericSingle
    \/ HandleNumericElse
    \/ NumericWhile
    \/ NumericReturn
    \/ DatetimeWhile
    \/ DatetimeReturn
    \/ DefineWindowsReturn

SpecWin == InitWin /\ [][NextWin]_vars


-----------------------------------------------------------------------------
(* The batched down-scaling, from a family of calls *)

\* the values a native cell may hold
DataValues == {NaN, Num(1), Num(2), Num(4)}
\* the value every cell of a store left by an earlier run holds
OldValue == Num(9)

\* a dataset over latitude alone, holding `temp`
LatitudeDataset(values) ==
    [dims |-> <<[name |-> "latitude", typ |-> "num", coords |-> GridCoords]>>,
     data |-> [var \in {"temp"} |->
                  [c \in Cells(<<1..Len(GridCoords)>>) |-> values[c[1]]]]]

\* a dataset over time and latitude, holding `temp`: 1, 2, NaN, 4 along
\* latitude at the first time, and 4 everywhere at every other time
TimeLatitudeDataset ==
    LET times == [t \in 1..MaxNative |-> Whole(t - 1)] IN
    [dims |-> <<[name |-> "time", typ |-> "dt", coords |-> times],
                [name |-> "latitude", typ |-> "num", coords |-> GridCoords]>>,
     data |-> [var \in {"temp"} |->
                  [c \in Cells(<<1..MaxNative, 1..Len(GridCoords)>>) |->
                      IF c[1] = 1 /\ c[2] = 1 THEN Num(1)
                      ELSE IF c[1] = 1 /\ c[2] = 2 THEN Num(2)
                      ELSE IF c[1] = 1 /\ c[2] = 3 THEN NaN
                      ELSE Num(4)]]]

ExampleValues == [p \in 1..(MaxVal + 1) |->
                    IF p = 1 THEN Num(1) ELSE IF p = 2 THEN Num(2)
                    ELSE IF p = 3 THEN NaN ELSE Num(4)]

Latitude(a, b, s, iv) ==
    [dimension |-> "latitude", typ |-> "num", scalar |-> FALSE,
     range |-> <<a, b>>, step |-> s, invert |-> iv]

\* the store an earlier run left at the destination: n cells along each
\* dimension the windows have, every cell holding OldValue
EarlierStore(names, n, vars_) ==
    FilledDataset([d \in 1..Len(names) |->
                      [name |-> names[d],
                       coords |-> [e \in 1..n |-> Frac(2 * e - 1, 2)]]],
                  vars_, OldValue)

\* the dimension names of the windows: the resampler's, then the others
WindowDimNames(rs, dataset) ==
    LET named == [r \in 1..Len(rs) |-> rs[r].dimension]
        Other(dim) == dim.name \notin {named[r] : r \in 1..Len(named)}
        rest == SelectSeq(dataset.dims, Other)
    IN named \o [r \in 1..Len(rest) |-> rest[r].name]

FreshCall ==
    /\ s3 = [path \in Paths |-> "absent"]
    /\ zarr = NoDataset
    /\ over_write = TRUE /\ start_batch = <<>> /\ end_batch = <<>>

\* every content of a small dataset, aggregated into one, two or no cells
\* per window
InitData ==
    /\ \E values \in [1..(MaxVal + 1) -> DataValues] :
           ds = LatitudeDataset(values)
    /\ \E r \in {Latitude(0, MaxVal, MaxVal + 1, FALSE),
                 Latitude(0, MaxVal, 2, FALSE),
                 Latitude(2, 1, 3, FALSE)} : resampler = <<r>>
    /\ variables = <<"temp">>
    /\ batch_size = 2 /\ workers = 1
    /\ FreshCall

\* every batch size and every pool size
InitPool ==
    /\ ds = LatitudeDataset(ExampleValues)
    /\ resampler = <<Latitude(0, MaxVal, 1, FALSE)>>
    /\ variables = <<"temp">>
    /\ batch_size \in 1..MaxBatchSize
    /\ workers \in 1..MaxWorkers
    /\ FreshCall

\* every state of the destination and every batch range; an earlier store
\* has as many cells as there are windows, or one fewer
InitStore ==
    /\ ds = LatitudeDataset(ExampleValues)
    /\ resampler = <<Latitude(0, MaxVal, 1, FALSE)>>
    /\ variables \in {<<"temp">>, <<"temp", "salt">>}
    /\ batch_size \in 1..MaxBatchSize
    /\ workers = 1
    /\ over_write \in BOOLEAN
    /\ start_batch \in {<<>>} \cup {<<b>> : b \in 0..1}
    /\ end_batch \in {<<>>} \cup {<<b>> : b \in 0..1}
    /\ \E full \in {"absent", "file", "dir"}, bare \in {"absent", "dir"} :
           /\ s3 = [path \in Paths |->
                       IF path = FullPath(dest_zarr) THEN full ELSE bare]
           /\ IF full = "dir"
              THEN \E n \in (MaxVal - 1)..MaxVal :
                       zarr = EarlierStore(WindowDimNames(resampler, ds), n,
                                           variables)
              ELSE zarr = NoDataset

\* every shape of ResamplerSpec and dataset, on a fresh destination
InitShapes ==
    /\ ds \in {LatitudeDataset(ExampleValues), TimeLatitudeDataset}
    /\ resampler \in
           {<<Latitude(0, MaxVal, 2, iv)>> : iv \in BOOLEAN}
           \cup {<<Latitude(1, 1, 1, FALSE)>>,
                 <<Latitude(2, 0, 1, FALSE)>>,
                 <<[dimension |-> "time", typ |-> "dt", scalar |-> FALSE,
                    range |-> <<0, 2>>, step |-> 3, invert |-> FALSE]>>,
                 <<[dimension |-> "latitude", typ |-> "num", scalar |-> TRUE,
                    range |-> <<1>>, step |-> Whole(1), invert |-> FALSE]>>}
    /\ variables = <<"temp">>
    /\ batch_size = 2 /\ workers = 1
    /\ FreshCall

Init ==
    /\ InitData \/ InitPool \/ InitStore \/ InitShapes
    /\ prev = zarr
    /\ WinInitState

Next ==
    \/ NextWin
    \/ CheckZarrExists
    \/ CheckZarrExistsError
    \/ DeleteZarr
    \/ DeleteZarrError
    \/ CreateEmptyZarr
    \/ SkipBatch
    \/ SubmitBatch
    \/ \E j \in DOMAIN tasks :
          \/ TaskRun(j)
          \/ TaskSucceed(j)
          \/ TaskFail(j)
          \/ Collect(j)
    \/ WriteBatch
    \/ FinishVariable
    \/ FinishCall

Spec == Init /\ [][Next]_vars

-----------------------------------------------------------------------------
(* Operations of the object store and the extraction operations, each     *)
(* called on its own                                                       *)

\* nothing of down_scale_in_batches is running
Idle ==
    /\ resampler = <<>> /\ variables = <<>>
    /\ batch_size = 1 /\ workers = 1 /\ over_write = FALSE
    /\ start_batch = <<>> /\ end_batch = <<>>
    /\ exists = FALSE /\ var_idx = 1 /\ batch_start = 0
    /\ tasks = <<>> /\ results = <<>>
    /\ k = 1
    /\ start = 0 /\ stop = 0 /\ step = 0 /\ invert = FALSE
    /\ current = 0 /\ index = 0
    /\ intervals = <<>> /\ indices = <<>>
    /\ dimensions = <<>> /\ dimension_indices = <<>>
    /\ dims_with_coords = <<>> /\ dims_with_indices = <<>>

\* the store the batch writer is called on: latitude by longitude, two
\* variables, every cell with a value of its own
StoredValue(var, c) ==
    Num(10 * c[1] + c[2] + (IF var = "temp" THEN 10 ELSE 50))

StoreOfCalls ==
    LET dims == <<[name |-> "latitude",
                   coords |-> [e \in 1..MaxNative |-> Frac(2 * e - 1, 2)]],
                  [name |-> "longitude",
                   coords |-> [e \in 1..2 |-> Frac(2 * e - 1, 2)]]>>
    IN [dims |-> dims,
        vars |-> [var \in {"temp", "salt"} |->
                     [c \in IndexTuples(<<MaxNative, 2>>) |->
                         StoredValue(var, c)]]]

\* the index maps of a batch: in bounds, below them and above them
IndexMaps ==
    {[name \in {"latitude", "longitude"} |->
         IF name = "latitude" THEN a ELSE b] :
        a \in (0 - 1)..MaxNative, b \in 0..2}

\* the values of a batch
BatchValues == {NaN, Num(1), Num(2)}

WriteCalls ==
    {[op |-> "write_zarr_batch", zarr_store_path |-> dest_zarr,
      variable_name |-> "temp", batch_values |-> values, indexes |-> maps] :
        values \in UNION {[1..n -> BatchValues] : n \in 1..MaxBatchSize},
        maps \in UNION {[1..n -> IndexMaps] : n \in 1..MaxBatchSize}}

InitWriteCall ==
    /\ call \in {c \in WriteCalls : Len(c.batch_values) = Len(c.indexes)}
    /\ pc = "wzb_call"
    /\ s3 = [path \in Paths |->
                IF path = FullPath(dest_zarr) THEN "dir" ELSE "absent"]
    /\ zarr = StoreOfCalls
    /\ ds = [dims |-> <<>>, data |-> <<>>]

InitCheckCall ==
    /\ call = [op |-> "check_zarr_exists", zarr_store_path |-> dest_zarr]
    /\ pc = "cze_call"
    /\ s3 \in [Paths -> {"absent", "file", "dir"}]
    /\ zarr = IF s3[FullPath(dest_zarr)] = "dir"
              THEN StoreOfCalls ELSE NoDataset
    /\ ds = [dims |-> <<>>, data |-> <<>>]

\* the dataset an extraction opens: latitude by longitude under either
\* pair of names, holding temp and salt
SourceOfCalls(lat_name, lon_name) ==
    [dims |-> <<[name |-> lat_name, typ |-> "num", coords |-> GridCoords],
                [name |-> lon_name, typ |-> "num", coords |-> GridCoords]>>,
     data |-> [var \in {"temp", "salt"} |->
                  [c \in Cells(<<1..Len(GridCoords), 1..Len(GridCoords)>>) |->
                      Num(c[1] + c[2])]]]

ExtractCalls ==
    {[op |-> op, var |-> var, lon_range |-> lon, lat_range |-> lat,
      debug |-> debug] :
        op \in ExtractOps,
        var \in {<<>>, <<"temp">>, <<"depth">>, <<"latitude">>},
        lon \in {<<>>, <<0, 1>>},
        lat \in {<<>>, <<1, MaxVal>>, <<MaxVal, 1>>},
        debug \in BOOLEAN}

InitExtractCall ==
    /\ call \in {c \in ExtractCalls : c.debug => HasDebug(c.op)}
    /\ pc = "ext_call"
    /\ ds \in {SourceOfCalls("latitude", "longitude"),
               SourceOfCalls("lat", "lon")}
    /\ s3 = [path \in Paths |->
                IF path = FullPath(dest_zarr) THEN "dir" ELSE "absent"]
    /\ zarr = NoDataset

\* the descriptors of one numeric dimension: one or two intervals, each of
\* two elements or of one, or a flat list of one or two numbers
IntervalEntries ==
    {Pair("num", a, b) : a \in 0..MaxVal, b \in 0..MaxVal}
    \cup {Single(i) : i \in 0..1}

FlatEntries == {Scalar("num", Whole(a)) : a \in 0..MaxVal}

NumericDescriptors ==
    UNION {[1..n -> IntervalEntries] : n \in 1..2}
    \cup UNION {[1..n -> FlatEntries] : n \in 1..2}

TimeDescriptors ==
    UNION {[1..n -> {Scalar("dt", Whole(a)) : a \in 0..1}] : n \in 1..2}

\* the interval dicts handed to a builder: latitude alone, latitude before
\* longitude, or time before latitude
SkeletonRanges ==
    {<<[name |-> "latitude", val |-> r]>> : r \in NumericDescriptors}
    \cup {<<[name |-> "latitude", val |-> r],
            [name |-> "longitude",
             val |-> <<Pair("num", 0, 2), Pair("num", 2, 4)>>]>> :
             r \in NumericDescriptors}
    \cup {<<[name |-> "time", val |-> t], [name |-> "latitude", val |-> r]>> :
             t \in TimeDescriptors,
             r \in {<<Pair("num", 0, 2)>>, <<Scalar("num", Whole(1))>>}}

InitBuilderCall ==
    /\ call \in {[op |-> op, coordinate_ranges |-> r,
                  variables |-> <<"temp">>] :
                    op \in {"ObjectStore._create_empty_ds",
                            "load._create_empty_ds"},
                    r \in SkeletonRanges}
    /\ pc = "ced_call"
    /\ s3 = [path \in Paths |-> "absent"]
    /\ zarr = NoDataset
    /\ ds = [dims |-> <<>>, data |-> <<>>]

\* the resamplers of the on-the-fly calls: one spec on latitude with every
\* range, step and invert of the bounds, alone or followed by a spec on
\* longitude
OnTheFlySpecs(dimension) ==
    {[dimension |-> dimension, step |-> st, range |-> <<a, b>>,
      invert |-> iv] :
        st \in (-1)..MaxStep, a \in 0..MaxVal, b \in 0..MaxVal,
        iv \in BOOLEAN}

OnTheFlyResamplers ==
    {<<lat>> : lat \in OnTheFlySpecs("latitude")}
    \cup {<<lat, lon>> :
            lat \in OnTheFlySpecs("latitude"),
            lon \in {sp \in OnTheFlySpecs("longitude") :
                        sp.step = 1 /\ sp.range[1] = 1 /\ ~sp.invert
                        /\ sp.range[2] \in {1, 2}}}

InitOnTheFlyCall ==
    /\ call \in {[op |-> "down_scale_on_the_fly", resampler |-> r] :
                    r \in OnTheFlyResamplers}
    /\ pc = "otf_call"
    /\ ds = SourceOfCalls("latitude", "longitude")
    /\ s3 = [path \in Paths |-> "absent"]
    /\ zarr = NoDataset

\* the runs of at least one and at most MaxNative neighbouring entries of
\* an axis
Runs(axis) ==
    {SubSeq(axis, a, b) : a \in 1..Len(axis), b \in 1..Len(axis)} \
        {r \in {SubSeq(axis, a, b) : a \in 1..Len(axis), b \in 1..Len(axis)} :
            Len(r) = 0 \/ Len(r) > MaxNative}

\* a regional dataset on the global grid of the steps: latitude stored
\* north to south, longitude west to east, with or without a time axis,
\* every cell of a variable holding another value
RegionalDataset(times, lats, lons) ==
    LET lead == IF times = <<>> THEN <<>>
                ELSE <<[name |-> "time", typ |-> "time", coords |-> times]>>
        sets == (IF times = <<>> THEN <<>> ELSE <<1..Len(times)>>)
                   \o <<1..Len(lats), 1..Len(lons)>>
    IN [dims |-> lead \o
                 <<[name |-> "latitude", typ |-> "num", coords |-> lats],
                   [name |-> "longitude", typ |-> "num", coords |-> lons]>>,
        data |-> [var \in {"temp"} |->
                     [c \in Cells(sets) |->
                         Num(c[Len(c)] + 10 * c[Len(c) - 1]
                             + (IF times = <<>> THEN 0 ELSE 100 * c[1]))]]]

GlobalSteps == {<<90, 45>>, <<180, 90>>, <<90, 90>>}

InitExpandCall ==
    /\ \E variant \in {"make_global", "transform"}, steps \in GlobalSteps :
         /\ call = [op |-> "expand_to_global_coverage", variant |-> variant,
                    step_lon |-> steps[1], step_lat |-> steps[2]]
         /\ \E times \in {<<>>, <<0>>, <<0, 1>>},
               lats \in Runs(global_axis(variant, -90, 90, steps[2])),
               lons \in Runs(global_axis(variant, -180, 180, steps[1])) :
                 ds = RegionalDataset(times, Reverse(lats), lons)
    /\ pc = "egc_call"
    /\ s3 = [path \in Paths |-> "absent"]
    /\ zarr = NoDataset

\* the keys a configuration file may hold: the five fields and two others
FileKeys ==
    {SettingsFields[g] : g \in 1..Len(SettingsFields)} \cup {"region", "port"}

\* the values of a file, by their TOML type and their text: strings and
\* integers
FileValues == {[typ |-> "str", v |-> "text"], [typ |-> "int", v |-> "1"]}

InitConfigCall ==
    /\ \E keys \in SUBSET FileKeys :
         \E file \in [keys -> FileValues] :
            call = [op |-> "Config._set_config", file |-> file]
    /\ pc = "cfg_call"
    /\ ds = [dims |-> <<>>, data |-> <<>>]
    /\ s3 = [path \in Paths |-> "absent"]
    /\ zarr = NoDataset

\* the lines of a log file: dataset lines, batch lines of three variables,
\* one of them spelled with a hyphen, and lines of other messages, at one
\* of two time stamps
MaxLines == 3

DatasetNames == {<<"b", "a", "t", "h", "y">>,
                 <<"h", "t", "t", "p", "s", ":", "/", "/", "h">>}
VarNames == {<<"t", "e", "m", "p">>, <<"s", "a", "l", "t">>,
             <<"s", "e", "a", "-", "t", "e", "m", "p">>}

LogLines ==
    {[kind |-> "dataset", timestamp |-> t, name |-> n] :
        t \in 1..2, n \in DatasetNames}
    \cup {[kind |-> "var", timestamp |-> t, name |-> n] :
            t \in 1..2, n \in VarNames}
    \cup {[kind |-> "other", timestamp |-> 1, name |-> <<>>]}

InitParseCall ==
    /\ \E n \in 0..MaxLines :
         \E lines \in [1..n -> LogLines] :
            call = [op |-> "_parse_event_log", lines |-> lines]
    /\ pc = "pel_call"
    /\ ds = [dims |-> <<>>, data |-> <<>>]
    /\ s3 = [path \in Paths |-> "absent"]
    /\ zarr = NoDataset

InitCalls ==
    /\ Idle
    /\ \/ InitWriteCall
       \/ InitCheckCall
       \/ InitExtractCall
       \/ InitBuilderCall
       \/ InitOnTheFlyCall
       \/ InitExpandCall
       \/ InitConfigCall
       \/ InitParseCall
    /\ prev = zarr
    /\ mem = <<>> /\ out = <<>>

NextCalls ==
    \/ WzbCheck
    \/ WzbOpen
    \/ WzbAssign
    \/ WzbRewrite
    \/ CzeExists
    \/ CzeIsdir
    \/ CzeElif
    \/ CzeProbeError
    \/ ExtOpen
    \/ ExtSel
    \/ ExtVar
    \/ ExtReturn
    \/ CreateEmptyDsCall
    \/ LegacyCreateEmptyDsCall
    \/ OtfBegin
    \/ OtfSpec
    \/ OtfReturn
    \/ ExpandToGlobalCoverage
    \/ SetConfig
    \/ PelBegin
    \/ PelLine
    \/ PelReturn

SpecCalls == InitCalls /\ [][NextCalls]_vars

-----------------------------------------------------------------------------
(* Properties of the window engine *)

\* the i-th resampled dimension has been processed and stored
Processed(i) == i \in 1..Len(resampler) /\ (k > i \/ pc = "windows")

IntervalsOf(i) == Get(dimensions, resampler[i].dimension)
IndicesOf(i) == Get(dimension_indices, resampler[i].dimension)

\* 0, 1, ..., n-1
Ascending(n) == [j \in 1..n |-> j - 1]

\* the interval list in generation order
GenerationOrder(i) ==
    IF resampler[i].invert THEN Reverse(IntervalsOf(i)) ELSE IntervalsOf(i)

NumericPair(i) == resampler[i].typ = "num" /\ ~resampler[i].scalar

\* C1: a numeric range (start, stop) with start < stop and
\* 0 < step <= stop - start yields, in generation order, the intervals
\* [current, min(current + step, stop)]: the first starts at start, each ends
\* where the next starts, the last ends at stop, none is wider than step, and
\* the index list is 0..n-1.
C1_BasicIntervals ==
    \A i \in 1..Len(resampler) :
        LET r == resampler[i]
            a == r.range[1]
            b == r.range[Len(r.range)]
        IN (Processed(i) /\ NumericPair(i) /\ a < b
            /\ 0 < r.step /\ r.step <= b - a)
           => LET g == GenerationOrder(i)
                  n == Len(g)
              IN /\ n >= 1
                 /\ g[1].v[1] = a
                 /\ g[n].v[2] = b
                 /\ \A j \in 1..n :
                       /\ g[j].kind = "list" /\ Len(g[j].v) = 2
                       /\ g[j].v[2] = Min(g[j].v[1] + r.step, b)
                       /\ g[j].v[2] - g[j].v[1] <= r.step
                       /\ g[j].v[1] < g[j].v[2]
                       /\ j < n => g[j].v[2] = g[j + 1].v[1]
                 /\ IndicesOf(i) = Ascending(n)

\* range (50,60) with step 5, scaled to (0,1) with step 0.5, gives two
\* intervals and the indices [0,1]
C1_Witness ==
    /\ Processed(1) /\ NumericPair(1)
    /\ resampler[1].range = <<0, 2>> /\ resampler[1].step = 1
    /\ ~resampler[1].invert
    /\ IntervalsOf(1) = <<Pair("num", 0, 1), Pair("num", 1, 2)>>
    /\ IndicesOf(1) = <<0, 1>>

\* C2: a scalar range, numeric or date/time typed, yields exactly one
\* degenerate interval equal to the scalar and the index list [0], as does a
\* numeric pair with start == stop.
C2_SingleValue ==
    \A i \in 1..Len(resampler) :
        LET r == resampler[i] IN
        (Processed(i)
         /\ (r.scalar \/ (NumericPair(i) /\ r.range[1] = r.range[2])))
        => /\ IntervalsOf(i) = <<Scalar(r.typ, r.range[1])>>
           /\ IndicesOf(i) = <<0>>

\* C3: a numeric range with start != stop and |stop - start| < step yields
\* exactly one interval [start, stop] with the index list [0], whatever
\* invert is.
C3_StepLargerThanRange ==
    \A i \in 1..Len(resampler) :
        LET r == resampler[i] IN
        (Processed(i) /\ NumericPair(i) /\ r.range[1] # r.range[2]
         /\ Abs(r.range[2] - r.range[1]) < r.step)
        => /\ IntervalsOf(i) = <<Pair("num", r.range[1], r.range[2])>>
           /\ IndicesOf(i) = <<0>>

C3_Witness ==
    /\ Processed(1) /\ NumericPair(1)
    /\ resampler[1].range = <<2, 1>> /\ resampler[1].step = 3
    /\ resampler[1].invert
    /\ IntervalsOf(1) = <<Pair("num", 2, 1)>>

\* the intervals the walk from start to stop generates, in closed form
Walk(typ, a, b, s) ==
    IF a < b
    THEN [j \in 1..((b - a + s - 1) \div s) |->
             Pair(typ, a + (j - 1) * s, Min(a + j * s, b))]
    ELSE <<>>

\* what a ResamplerSpec generates before any inversion
Generated(r) ==
    LET a == r.range[1]
        b == r.range[Len(r.range)]
    IN IF r.typ = "dt"
       THEN Walk("dt", a, b, IntTrunc(r.step))
       ELSE IF a = b THEN <<Scalar("num", a)>>
       ELSE IF Abs(b - a) < r.step THEN <<Pair("num", a, b)>>
       ELSE Walk("num", a, b, r.step)

\* C4: with invert true the interval list of the dimension is returned in
\* reverse generation order while the index list stays 0..n-1.
C4_InvertReversesIntervalsOnly ==
    \A i \in 1..Len(resampler) :
        (Processed(i) /\ resampler[i].invert)
        => /\ IntervalsOf(i) = Reverse(Generated(resampler[i]))
           /\ IndicesOf(i) = Ascending(Len(IntervalsOf(i)))

\* latitude (50,60), step 5, invert: [[55,60],[50,55]] with indices [0,1]
C4_Witness ==
    /\ Processed(1) /\ NumericPair(1)
    /\ resampler[1].range = <<0, 2>> /\ resampler[1].step = 1
    /\ resampler[1].invert
    /\ IntervalsOf(1) = <<Pair("num", 1, 2), Pair("num", 0, 1)>>
    /\ IndicesOf(1) = <<0, 1>>

RECURSIVE ProductOfLengths(_)
ProductOfLengths(lists) ==
    IF lists = <<>> THEN 1
    ELSE Len(Head(lists)) * ProductOfLengths(Tail(lists))

\* C5: the window list and the index list have the same length, the product
\* of the per-dimension interval counts, name the dimensions in the same
\* order, and the k-th window's interval on a dimension is the entry of that
\* dimension's interval list at the k-th index entry for it.
C5_WindowsPairedWithIndices ==
    pc = "windows" =>
        /\ Len(dims_with_coords) = ProductOfLengths(Values(dimensions))
        /\ Len(dims_with_indices) = Len(dims_with_coords)
        /\ Keys(dimension_indices) = Keys(dimensions)
        /\ \A m \in 1..Len(dims_with_coords) :
              /\ DOMAIN dims_with_coords[m] = KeySet(dimensions)
              /\ DOMAIN dims_with_indices[m] = KeySet(dimensions)
              /\ \A d \in KeySet(dimensions) :
                    /\ dims_with_indices[m][d] \in
                           0..(Len(Get(dimensions, d)) - 1)
                    /\ dims_with_coords[m][d] =
                           Get(dimensions, d)[dims_with_indices[m][d] + 1]

\* a product of three dimensions, one of them inverted with two intervals
C5_Witness ==
    /\ pc = "windows"
    /\ Len(dimensions) = 3
    /\ resampler[1].invert
    /\ Len(IntervalsOf(1)) = 2
    /\ Len(dims_with_coords) >= 8


\* the dimensions of the dataset the resampler does not name
Unresampled ==
    {d \in 1..Len(ds.dims) :
        ds.dims[d].name \notin
            {resampler[i].dimension : i \in 1..Len(resampler)}}

\* C6: every dimension the resampler does not name gets one window cell per
\* native position, in native order, and the cell generated for native
\* position i selects exactly the native data at position i, whatever the
\* coordinate values of the dimension.
C6_UnresampledCarriedThrough ==
    pc = "windows" =>
        \A d \in Unresampled :
            LET dim == ds.dims[d] IN
            /\ Len(Get(dimensions, dim.name)) = Len(dim.coords)
            /\ Get(dimension_indices, dim.name) = Ascending(Len(dim.coords))
            /\ \A m \in 1..Len(dims_with_coords) :
                  slice_dataset(ds, dims_with_coords[m])[d] =
                      {dims_with_indices[m][dim.name] + 1}

\* the first half of C6 alone: one cell per native position, in order
C6_OneCellPerPosition ==
    pc = "windows" =>
        \A d \in Unresampled :
            LET dim == ds.dims[d] IN
            /\ Len(Get(dimensions, dim.name)) = Len(dim.coords)
            /\ Get(dimension_indices, dim.name) = Ascending(Len(dim.coords))

-----------------------------------------------------------------------------
(* Properties of the batched down-scaling *)

\* the window and the variable task j of the running batch works on
TaskWindow(j) == dims_with_coords[batch_start + j]
TaskVariable == variables[var_idx]

\* the values of the native cells task j's window selects, for its variable
SelectedCells(j) == Cells(slice_dataset(ds, TaskWindow(j)))
SelectedNonNaN(j) ==
    IF TaskVariable \in DOMAIN ds.data
    THEN {c \in SelectedCells(j) : ~IsNaN(ds.data[TaskVariable][c])}
    ELSE {}

\* the sum of the non-NaN selected cells over their count, NaN if none
ExpectedMean(j) ==
    IF SelectedNonNaN(j) = {} THEN NaN
    ELSE Frac(SumOf(ds.data[TaskVariable], SelectedNonNaN(j)),
              Cardinality(SelectedNonNaN(j)))

\* task j runs its try block to the end in this step (a task that returns
\* before its last attempt can only have succeeded)
Computes(j) ==
    /\ pc = "pool"
    /\ tasks[j].status = "running"
    /\ tasks[j].retries < max_retries - 1
    /\ tasks'[j].status = "done"

\* C7: the value a task computes for a window and variable is the sum of the
\* non-NaN native cells the window selects divided by their count; it is NaN
\* when the window selects no cell or only NaN cells.
C7_TaskMean ==
    [][\A j \in DOMAIN tasks :
          Computes(j) => tasks'[j].ret[2] = ExpectedMean(j)]_vars

\* a task has computed 7/3 from the cells 1, 2, NaN, 4
C7_Witness ==
    /\ pc = "pool"
    /\ \E j \in DOMAIN tasks :
          /\ tasks[j].status = "done"
          /\ tasks[j].ret[2] = <<7, 3>>
          /\ Cardinality(SelectedCells(j)) = 4
          /\ \E a, b, c, d \in SelectedCells(j) :
                /\ ds.data[TaskVariable][a] = Num(1)
                /\ ds.data[TaskVariable][b] = Num(2)
                /\ ds.data[TaskVariable][c] = NaN
                /\ ds.data[TaskVariable][d] = Num(4)

\* C8: an attempt of a running task either succeeds, and the task returns
\* its own index with the correct mean whatever the number of failures
\* before it (fewer than 5); or fails as one of the first four attempts,
\* and the task runs again; or fails as the fifth attempt, and the task
\* returns its own index with NaN.  No attempt raises to the caller.
C8_Retry ==
    [][\A j \in DOMAIN tasks :
          (pc = "pool" /\ tasks[j].status = "running"
                /\ tasks'[j] # tasks[j]) =>
             /\ pc' = "pool"
             /\ tasks[j].retries < max_retries
             /\ \/ /\ tasks'[j].status = "done"
                   /\ tasks'[j].ret =
                          <<batch_start + j - 1, ExpectedMean(j)>>
                \/ /\ tasks[j].retries + 1 < max_retries
                   /\ tasks'[j].status = "running"
                   /\ tasks'[j].retries = tasks[j].retries + 1
                \/ /\ tasks[j].retries + 1 = max_retries
                   /\ tasks'[j].status = "done"
                   /\ tasks'[j].ret = <<batch_start + j - 1, NaN>>]_vars

\* a task whose window has a mean has failed five times and returned NaN,
\* while another task of the batch is on its fifth attempt
C8_Witness ==
    /\ pc = "pool"
    /\ \E j \in DOMAIN tasks :
          /\ tasks[j].status = "done"
          /\ tasks[j].ret = <<batch_start + j - 1, NaN>>
          /\ ~IsNaN(ExpectedMean(j))
    /\ \E j \in DOMAIN tasks :
          /\ tasks[j].status = "running"
          /\ tasks[j].retries = max_retries - 1

\* the call is past its set-up of the destination, or has raised
PastSetUp == pc \in {"batches", "pool", "done", "raised"}

\* the cells of the store that still hold the value of the earlier run
OldCells(stored) ==
    {<<var, c>> \in UNION {{var} \X DOMAIN stored.vars[var] :
                             var \in DOMAIN stored.vars} :
        stored.vars[var][c] = OldValue}

\* C9: when the call is made with overwrite true and the destination store
\* exists, the store is deleted and an all-NaN skeleton is created in its
\* place before the first batch is written, so that no cell value of the
\* previous store survives the call.  (Stated for a bucket that holds
\* nothing under the path without the bucket prefix, where rm cannot fail.)
C9_OverwriteReplacesStore ==
    (over_write /\ prev # NoDataset /\ PastSetUp
        /\ s3[BarePath(dest_zarr)] = "absent") =>
        /\ pc # "raised"
        /\ OldCells(zarr) = {}
        /\ (pc = "batches" /\ var_idx = 1 /\ batch_start = 0) =>
               zarr = create_empty_ds(dimensions, variables).ds

\* the batch index of window w (counted from 1)
BatchOf(w) == (w - 1) \div batch_size

\* the batch index lies outside [start_batch, end_batch]
OutsideRange(b) ==
    \/ start_batch # <<>> /\ b < start_batch[1]
    \/ end_batch # <<>> /\ b > end_batch[1]

\* the call found the destination and is to leave it in place
Resuming == ~over_write /\ exists

-----------------------------------------------------------------------------
(* Properties of the operations called on their own *)

\* write_zarr_batch has been called
WriteCalled == pc \in {"wzb_call", "wzb_open", "wzb_loop", "call_done"}
                  /\ call.op = "write_zarr_batch"

\* every value of the batch is NaN
EveryValueNaN ==
    \A b \in 1..Len(call.batch_values) : call.batch_values[b] = NaN

\* the cell of the stored variable an index map addresses
Addressed(b) == ResolveIndex(prev, call.indexes[b])

OutOfBounds(b) ==
    \E d \in 1..Len(prev.dims) :
        \/ Addressed(b)[d] < 0
        \/ Addressed(b)[d] >= Len(prev.dims[d].coords)

SomePairOutOfBounds ==
    \E b \in 1..Len(call.batch_values) : OutOfBounds(b)

\* the call has failed out of bounds and has not rewritten the store
FailedOutOfBounds ==
    /\ out = Raised("IndexError")
    /\ zarr = prev

BuilderCalled ==
    pc \in {"ced_call", "call_done"}
       /\ call.op \in {"ObjectStore._create_empty_ds", "load._create_empty_ds"}

\* the coordinate C13 gives a dimension: midpoints of the 2-element
\* intervals then the values of the 1-element ones; the one value of a
\* flat descriptor of length 1; the integers start..stop-1 of a flat
\* [start, stop]
DescribedCoords(ranges) ==
    IF ranges[1].kind = "list"
    THEN LET Two(e) == Len(e.v) = 2
             One(e) == Len(e.v) = 1
             twos == SelectSeq(ranges, Two)
             ones == SelectSeq(ranges, One)
         IN [e \in 1..Len(twos) |-> Frac(twos[e].v[1] + twos[e].v[2], 2)]
            \o [e \in 1..Len(ones) |-> Num(ones[e].v[1])]
    ELSE IF Len(ranges) = 1
    THEN <<Num(ranges[1].v[1])>>
    ELSE LET a == ranges[1].v[1] \div Whole(1)
             b == ranges[2].v[1] \div Whole(1)
         IN [e \in 1..(IF b > a THEN b - a ELSE 0) |-> Num(Whole(a + e - 1))]

\* the dataset C13 describes, for an interval dict without a time dimension
DescribedSkeleton(coordinate_ranges, names) ==
    FilledDataset([d \in 1..Len(coordinate_ranges) |->
                      [name |-> coordinate_ranges[d].name,
                       coords |-> DescribedCoords(coordinate_ranges[d].val)]],
                  names, NaN)

NoTimeDimension ==
    \A d \in 1..Len(call.coordinate_ranges) :
        call.coordinate_ranges[d].name # "time"

\* C13: the skeleton builder, in the ObjectStore form and in the
\* free-function form, maps every coordinate_ranges input to the same
\* dataset: midpoints for 2-element intervals, the single value of
\* 1-element entries, the one value of a flat descriptor of length 1, the
\* integers start..stop-1 for a flat [start, stop], and every variable an
\* all-NaN array of the shape of the coordinate counts.
C13_BuildersAgree ==
    (BuilderCalled /\ pc = "call_done") =>
        /\ BuilderOutcome(create_empty_ds(call.coordinate_ranges,
                                          call.variables))
             = BuilderOutcome(legacy_create_empty_ds(call.coordinate_ranges,
                                                     call.variables))
        /\ NoTimeDimension =>
               out = ReturnedValue(DescribedSkeleton(call.coordinate_ranges,
                                                     call.variables))

\* the part of C13 that holds: the free-function form builds the dataset
\* described, and the ObjectStore form builds it too unless a dimension has
\* a flat descriptor of length 1
C13_AgreeButForFlatSingle ==
    (BuilderCalled /\ pc = "call_done" /\ NoTimeDimension) =>
        \/ out = ReturnedValue(DescribedSkeleton(call.coordinate_ranges,
                                                 call.variables))
        \/ /\ call.op = "ObjectStore._create_empty_ds"
           /\ out.kind = "raised"
           /\ \E d \in 1..Len(call.coordinate_ranges) :
                 LET ranges == call.coordinate_ranges[d].val IN
                 Len(ranges) = 1 /\ ranges[1].kind = "scalar"

\* the call has written the batch: it got past the all-NaN test and
\* returned
WroteBatch ==
    /\ WriteCalled /\ pc = "call_done"
    /\ out = ReturnedValue("None")
    /\ ~EveryValueNaN

\* the pairs of the batch that address cell c
PairsOf(c) == {b \in 1..Len(call.batch_values) : Addressed(b) = c}

\* the last of a non-empty set of pairs
LastOf(pairs) == CHOOSE b \in pairs : \A other \in pairs : other <= b

\* C14: a successful write_zarr_batch with in-bounds indexes leaves every
\* addressed cell of the named variable equal to its paired batch value
\* (of the last pair that addresses it, when several do) and leaves every
\* other cell of that variable, every other variable and every coordinate
\* of the destination store unchanged.
C14_WritesExactlyTheAddressedCells ==
    WroteBatch =>
        /\ \A b \in 1..Len(call.batch_values) : ~OutOfBounds(b)
        /\ zarr.dims = prev.dims
        /\ DOMAIN zarr.vars = DOMAIN prev.vars
        /\ \A var \in DOMAIN prev.vars \ {call.variable_name} :
              zarr.vars[var] = prev.vars[var]
        /\ DOMAIN zarr.vars[call.variable_name]
              = DOMAIN prev.vars[call.variable_name]
        /\ \A c \in DOMAIN prev.vars[call.variable_name] :
              zarr.vars[call.variable_name][c] =
                  IF PairsOf(c) = {}
                  THEN prev.vars[call.variable_name][c]
                  ELSE call.batch_values[LastOf(PairsOf(c))]

\* the batch of the one pair ({latitude: 0, longitude: 1}, 1.0) has been
\* written, and exactly that cell has changed
C14_Witness ==
    /\ WroteBatch
    /\ Len(call.batch_values) = 1
    /\ call.batch_values[1] = Num(1)
    /\ Addressed(1) = <<0, 1>>
    /\ zarr.vars["temp"][<<0, 1>>] = Num(1)
    /\ prev.vars["temp"][<<0, 1>>] # Num(1)
    /\ \A c \in DOMAIN prev.vars["temp"] \ {<<0, 1>>} :
          zarr.vars["temp"][c] = prev.vars["temp"][c]

\* check_zarr_exists has been called
CheckCalled ==
    pc \in {"cze_call", "cze_isdir", "cze_elif", "call_done"}
       /\ call.op = "check_zarr_exists"

\* what the store holds at bucket/path
AtBucketPath == s3[<<bucket, call.zarr_store_path>>]

Extracted == pc = "call_done" /\ call.op \in ExtractOps

\* the data variables of the dataset the extraction opened
DataVars == DOMAIN ds.data

\* what the extraction operations are to do with var
ExtractionOutcome ==
    IF call.var = <<>>
    THEN /\ out.kind = "returned"
         /\ out.value.type = "Dataset"
         /\ out.value.names = DataVars
    ELSE IF call.var[1] \in DataVars
    THEN /\ out.kind = "returned"
         /\ out.value.type = "DataArray"
         /\ out.value.names = {call.var[1]}
    ELSE out = Raised("ValueError: Variable not found in the dataset")

\* C16: every extraction operation given a var that is not among the
\* opened dataset's data variables fails with "Variable '<var>' not found
\* in the dataset.", with or without longitude/latitude ranges; given a var
\* that is present it returns only that variable; given no var it returns
\* the whole dataset.
C16_ExtractionByVar == Extracted => ExtractionOutcome

\* the same, for the calls that do not ask for the debug print
C16_ExtractionByVarWithoutDebug ==
    Extracted /\ ~call.debug => ExtractionOutcome

\* down_scale_on_the_fly has been called and has ended
OnTheFlyEnded == pc = "call_done" /\ call.op = "down_scale_on_the_fly"

\* the coordinate centers of a spec, written out from its range and step:
\* start + step/2, start + 3*step/2, ... up to, excluding, stop + step/2
CentersOf(spec) ==
    {c \in (Whole(-MaxStep))..(Whole(MaxVal + MaxStep)) :
        \E e \in 0..(MaxVal + 1) :
            /\ c = Whole(spec.range[1]) + spec.step + e * Whole(spec.step)
            /\ IF spec.step > 0 THEN c < Whole(spec.range[2]) + spec.step
               ELSE c > Whole(spec.range[2]) + spec.step}

\* a spec of the call generates no coordinate center
SomeSpecEmpty ==
    \E e \in 1..Len(call.resampler) :
        /\ call.resampler[e].step # 0
        /\ CentersOf(call.resampler[e]) = {}

\* a spec of the call has a zero-width range and a positive step
SomeSpecZeroWidth ==
    \E e \in 1..Len(call.resampler) :
        /\ call.resampler[e].step > 0
        /\ call.resampler[e].range[1] = call.resampler[e].range[2]

\* C17: down_scale_on_the_fly raises an invalid-input error, and returns
\* no dataset, for every resampler with a spec whose generated sequence of
\* coordinate centers is empty; in particular for every zero-width range
\* (start = stop) with positive step, with or without invert.
C17_EmptyCentersRaise ==
    OnTheFlyEnded =>
        /\ SomeSpecEmpty => out.kind = "raised"
        /\ SomeSpecZeroWidth => out.kind = "raised"
        /\ (SomeSpecEmpty /\ \A e \in 1..Len(call.resampler) :
                                call.resampler[e].step # 0)
              => out = Raised("ValueError: Generated new coordinates are empty")

\* a zero-width range with positive step and invert has raised
C17_Witness ==
    /\ OnTheFlyEnded
    /\ Len(call.resampler) = 1
    /\ call.resampler[1].range = <<1, 1>>
    /\ call.resampler[1].step > 0
    /\ call.resampler[1].invert
    /\ out = Raised("ValueError: Generated new coordinates are empty")

\* expand_to_global_coverage has been called and has ended
Expanded == pc = "call_done" /\ call.op = "expand_to_global_coverage"

\* the input's time, latitude and longitude coordinates
InputHasTime == ds.dims[1].name = "time"
InputLat == ds.dims[IF InputHasTime THEN 2 ELSE 1].coords
InputLon == ds.dims[IF InputHasTime THEN 3 ELSE 2].coords

\* the 0-based place of a coordinate on an axis of the returned grid
GlobalIndexOf(axis, value) ==
    (CHOOSE p \in 1..Len(axis) : axis[p] = value) - 1

\* the returned grid holds, in the sub-rectangle that starts at the global
\* index of the input's last latitude and first longitude and has the
\* input's size, the input flipped along latitude, and NaN everywhere else
EmbeddedFlipped ==
    /\ out.kind = "returned"
    /\ LET glob == out.value
           lead == IF InputHasTime THEN 1 ELSE 0
           r0 == GlobalIndexOf(glob.dims[lead + 1].coords,
                               InputLat[Len(InputLat)])
           c0 == GlobalIndexOf(glob.dims[lead + 2].coords, InputLon[1])
       IN \A var \in DOMAIN ds.data :
            \A c \in DOMAIN glob.vars[var] :
               LET i == c[lead + 1] - r0
                   j == c[lead + 2] - c0
               IN glob.vars[var][c] =
                    IF 0 <= i /\ i < Len(InputLat)
                          /\ 0 <= j /\ j < Len(InputLon)
                    THEN ds.data[var][[e \in 1..lead |-> c[e] + 1]
                                      \o <<Len(InputLat) - i, j + 1>>]
                    ELSE NaN

\* C18: expand_to_global_coverage, given a regional dataset on the global
\* grid of the given steps, returns a global grid in which the
\* sub-rectangle at the global index of the input's last latitude and first
\* longitude, of the input's size, holds the input flipped along latitude,
\* and every other cell is NaN; for 2-D variables and for variables with a
\* time axis.
C18_EmbeddedInGlobalGrid == Expanded => EmbeddedFlipped

\* the same, for datasets without a time axis, in both modules
C18_EmbeddedWithoutTime == Expanded /\ ~InputHasTime => EmbeddedFlipped

\* a configuration file has been loaded, or has failed to load
ConfigLoaded == pc = "call_done" /\ call.op = "Config._set_config"

RequiredKeys == {"bucket", "endpoint_url", "aws_access_key_id",
                 "aws_secret_access_key", "aws_session_token"}

FileHolds == DOMAIN call.file
AllStrings(keys) == \A key \in keys : call.file[key].typ = "str"

\* C19: loading a configuration file fails, and yields no Settings,
\* whenever the file's key set differs from the five required keys (one is
\* missing or an extra one is present) or a value is not a string; it
\* succeeds only when exactly the five keys are present as strings.
C19_ExactKeysAsStrings ==
    ConfigLoaded =>
        (out.kind = "returned"
            <=> (FileHolds = RequiredKeys /\ AllStrings(FileHolds)))

\* what the load does: it succeeds exactly when the five required keys are
\* present as strings, whatever other keys the file holds, and then yields
\* the five values
C19_RequiredKeysAsStrings ==
    ConfigLoaded =>
        /\ out.kind = "returned"
              <=> (RequiredKeys \subseteq FileHolds /\ AllStrings(RequiredKeys))
        /\ out.kind = "returned" =>
              /\ DOMAIN out.value = RequiredKeys
              /\ \A key \in RequiredKeys : out.value[key] = call.file[key].v

\* the positions of a dimension whose coordinate c has start <= c < end
HalfOpen(coords, lo, hi) ==
    {p \in 1..Len(coords) : lo <= coords[p] /\ coords[p] < hi}

\* the cells of task j's window when every 2-element interval is read as
\* [start, end); the other dimensions as _slice_dataset selects them
HalfOpenCells(j) ==
    Cells([d \in 1..Len(ds.dims) |->
              LET dim == ds.dims[d]
                  window == TaskWindow(j)
              IN IF dim.name \in DOMAIN window
                    /\ window[dim.name].kind = "list"
                    /\ Len(window[dim.name].v) = 2
                 THEN HalfOpen(dim.coords, window[dim.name].v[1],
                               window[dim.name].v[2])
                 ELSE slice_dataset(ds, window)[d]])

HalfOpenNonNaN(j) ==
    IF TaskVariable \in DOMAIN ds.data
    THEN {c \in HalfOpenCells(j) : ~IsNaN(ds.data[TaskVariable][c])}
    ELSE {}

HalfOpenMean(j) ==
    IF HalfOpenNonNaN(j) = {} THEN NaN
    ELSE Frac(SumOf(ds.data[TaskVariable], HalfOpenNonNaN(j)),
              Cardinality(HalfOpenNonNaN(j)))

\* C20: in batched aggregation a 2-element window interval is half-open,
\* [start, end): a window selects exactly the native cells whose
\* coordinate c has start <= c < end on every resampled dimension, so a
\* cell on the boundary shared by two adjacent windows contributes to the
\* mean of only one of them.
C20_HalfOpenWindows ==
    [][\A j \in DOMAIN tasks :
          Computes(j) => tasks'[j].ret[2] = HalfOpenMean(j)]_vars

\* what the code does instead: a native cell on the boundary of two
\* adjacent windows is selected by both
BoundaryCellInTwoWindows ==
    /\ pc = "pool"
    /\ \E m1, m2 \in 1..Len(dims_with_coords) :
          /\ m2 = m1 + 1
          /\ Cells(slice_dataset(ds, dims_with_coords[m1]))
                \cap Cells(slice_dataset(ds, dims_with_coords[m2])) # {}

-----------------------------------------------------------------------------
(* Properties of the pool and of the batch loop *)

\* the future of task j is handed over by as_completed in this step
Collects(j) ==
    /\ pc = "pool"
    /\ tasks[j].status = "done"
    /\ tasks'[j].status = "collected"

\* every future of the batch has been handed over: the array is returned
AllCollected ==
    /\ pc = "pool"
    /\ \A j \in DOMAIN tasks : tasks[j].status = "collected"

\* what the j-th window of the batch can result in: its mean, or NaN after
\* the last failed attempt
ResultsOfWindow(j) ==
    {window_mean(ds, TaskWindow(j), TaskVariable), NaN}

\* C21: for every order in which the tasks of one batch complete, the
\* array _get_means_threaded assembles holds at position j the result of
\* the batch's j-th window: each position is filled exactly once, by the
\* task that reports index offset + j, and none is unfilled when the array
\* is returned.
C21_ResultsByReportedIndex ==
    /\ [][\A j \in DOMAIN tasks :
             Collects(j) =>
                /\ tasks[j].ret[1] = batch_start + (j - 1)
                /\ results[j] = <<>>
                /\ results'[j] = tasks[j].ret[2]
                /\ \A h \in DOMAIN results \ {j} : results'[h] = results[h]]_vars
    /\ [](AllCollected =>
             \A j \in DOMAIN tasks :
                /\ results[j] # <<>>
                /\ results[j] = tasks[j].ret[2]
                /\ results[j] \in ResultsOfWindow(j))

\* the second task of a batch completed and was collected before the first,
\* and the two windows have different means
C21_Witness ==
    /\ pc = "pool"
    /\ Len(tasks) = 2
    /\ tasks[2].status = "collected"
    /\ tasks[1].status \in {"queued", "running", "done"}
    /\ results[1] = <<>>
    /\ results[2] = window_mean(ds, TaskWindow(2), TaskVariable)
    /\ window_mean(ds, TaskWindow(1), TaskVariable) # results[2]

\* the batch loop is running: between the set-up and the return
InBatchLoop == pc \in {"batches", "pool"}

\* the pool is left in this step: the write of the batch starts, and the
\* step ends with its return or its error
WriteStarts == pc = "pool" /\ pc' # "pool"

\* task j is submitted to the pool in this step
Submits(j) ==
    /\ j \in DOMAIN tasks'
    /\ tasks'[j].status = "queued"
    /\ IF j \in DOMAIN tasks THEN tasks[j].status # "queued" ELSE TRUE

\* C22: in down_scale_in_batches the write of a batch starts only after
\* every task of that batch has completed, and no task of a later batch or
\* of another variable is submitted before that write has returned;
\* batches of one variable are processed in ascending batch index and
\* variables in list order.
C22_BarrierAndOrder ==
    [][InBatchLoop =>
          /\ WriteStarts => AllCollected
          /\ zarr' # zarr => AllCollected
          /\ (\E j \in 1..MaxBatchSize : Submits(j)) =>
                /\ pc = "batches" /\ tasks = <<>>
                /\ UNCHANGED <<var_idx, batch_start, zarr>>
          /\ (pc = "pool" /\ ~WriteStarts) =>
                UNCHANGED <<var_idx, batch_start, zarr>>
          /\ \/ var_idx' = var_idx /\ batch_start' >= batch_start
             \/ /\ var_idx' = var_idx + 1
                /\ batch_start >= total_windows
                /\ batch_start' = 0]_vars

\* the tasks of the second batch have just been submitted, and the first
\* batch's mean is already in the store
C22_Witness ==
    /\ pc = "pool"
    /\ batch_start > 0
    /\ \A j \in DOMAIN tasks : tasks[j].status = "queued"
    /\ <<0>> \in DOMAIN zarr.vars[TaskVariable]
    /\ zarr.vars[TaskVariable][<<0>>] = <<3, 2>>

\* the fifth attempt of task j, on a window whose mean is a number, ends
\* in this step otherwise than by returning that mean: it has failed
Exhausts(j) ==
    /\ pc = "pool"
    /\ tasks[j].status = "running"
    /\ tasks[j].retries = max_retries - 1
    /\ window_mean(ds, TaskWindow(j), TaskVariable) # NaN
    /\ tasks'[j] # tasks[j] \/ pc' # pc
    /\ ~(/\ tasks'[j].status = "done"
         /\ tasks'[j].ret[2] = window_mean(ds, TaskWindow(j), TaskVariable))

\* task j has returned NaN for a window whose mean is a number: its
\* retries were exhausted
Exhausted(j) ==
    /\ tasks[j].status \in {"done", "collected"}
    /\ tasks[j].ret[2] = NaN
    /\ window_mean(ds, TaskWindow(j), TaskVariable) # NaN

SomeExhausted == pc = "pool" /\ \E j \in DOMAIN tasks : Exhausted(j)

\* the cell of the store the j-th window of the batch is written to
CellOf(stored, j) == ResolveIndex(stored, dims_with_indices[batch_start + j])

\* C23: when one window's task in a batch exhausts its retries, only that
\* window's position in the batch result is NaN: every other task of the
\* batch still runs to completion and contributes its own mean, the batch
\* is still written, and the remaining batches and variables are still
\* processed.
C23_FailureStaysLocal ==
    /\ [][\A j \in DOMAIN tasks :
             Exhausts(j) =>
                /\ tasks'[j].status = "done"
                /\ tasks'[j].ret = <<batch_start + (j - 1), NaN>>
                /\ \A h \in DOMAIN tasks \ {j} : tasks'[h] = tasks[h]
                /\ UNCHANGED <<pc, results, zarr, var_idx, batch_start>>]_vars
    /\ [](AllCollected =>
             \A j \in DOMAIN tasks :
                results[j] = IF Exhausted(j) THEN NaN
                             ELSE window_mean(ds, TaskWindow(j), TaskVariable))
    /\ [][(SomeExhausted /\ WriteStarts /\ pc' = "batches") =>
             /\ batch_start' = batch_start + batch_size
             /\ var_idx' = var_idx
             /\ \A h \in DOMAIN tasks :
                   ~Exhausted(h) /\ results[h] # NaN =>
                       zarr'.vars[TaskVariable][CellOf(zarr, h)] = results[h]]_vars

\* a batch of two was written after the first task's retries were
\* exhausted: the second window's mean is in the store, and the loop is
\* back at its head
C23_Witness ==
    /\ pc = "batches"
    /\ batch_size = 2
    /\ batch_start = 2
    /\ <<1>> \in DOMAIN zarr.vars[TaskVariable]
    /\ zarr.vars[TaskVariable][<<0>>] = NaN
    /\ zarr.vars[TaskVariable][<<1>>] = Num(2)

-----------------------------------------------------------------------------
(* Properties of the log parser *)

\* the event log has been parsed
Parsed == pc = "call_done" /\ call.op = "_parse_event_log"

\* the lines of the file of a kind, by position
LinesOf(kind) == {p \in 1..Len(call.lines) : call.lines[p].kind = kind}

\* the variable names of the batch lines
LoggedVars == {call.lines[p].name : p \in LinesOf("var")}

\* the first batch line of a variable, in file order
FirstLineOf(name) ==
    CHOOSE p \in LinesOf("var") :
        /\ call.lines[p].name = name
        /\ \A q \in LinesOf("var") : call.lines[q].name = name => p <= q

\* the rows of the returned frame that are events of a variable, or
\* dataset events
VarEvents(name) ==
    {r \in 1..Len(out.value) : out.value[r].var = <<name>>}
DatasetEvents == {r \in 1..Len(out.value) : out.value[r].dataset # <<>>}

\* for the variable names in `names`: one event each, at the time stamp of
\* the first batch line; one event per dataset line; and no other event
OneEventPerVariable(names) ==
    /\ out.kind = "returned"
    /\ \A name \in names :
          /\ Cardinality(VarEvents(name)) = 1
          /\ \A r \in VarEvents(name) :
                out.value[r].timestamp =
                    call.lines[FirstLineOf(name)].timestamp
    /\ Cardinality(DatasetEvents) = Cardinality(LinesOf("dataset"))
    /\ Len(out.value)
          = Cardinality(DatasetEvents)
            + Cardinality({name \in names : VarEvents(name) # {}})

\* C24: the event-log parser records, for each distinct variable name that
\* occurs in 'Working on VAR' lines, exactly one event carrying the time
\* stamp of the first such line in file order; later batch lines of the
\* same variable add no event, while every 'Downscaling dataset' line adds
\* one event.
C24_OneEventPerVariable == Parsed => OneEventPerVariable(LoggedVars)

\* the same for the variable names made of word characters alone; a batch
\* line of another name adds no event
C24_OneEventPerWordVariable ==
    Parsed =>
        /\ OneEventPerVariable({name \in LoggedVars :
                                   WordPrefix(name) = name})
        /\ \A name \in LoggedVars :
              WordPrefix(name) # name => VarEvents(name) = {}

-----------------------------------------------------------------------------
(* Termination of the interval generation *)

\* a handler's while loop is running
InWhile == pc \in {"while_numeric", "while_datetime"}

\* an iteration of the while loop is made in this step
Iterates == InWhile /\ pc' = pc /\ intervals' # intervals

\* C25: interval generation terminates for every ResamplerSpec with a
\* numeric or date/time (start, stop) range and every step value, a zero
\* step and a date/time step of less than one day (truncated to whole
\* days) included: every iteration of `while current < stop` brings
\* current closer to stop by at least one unit, so the loop ends.
C25_IntervalGenerationTerminates ==
    [][Iterates => stop - current' < stop - current]_vars

\* the loops that do end: those whose step, after truncation, is positive
C25_TerminatesForPositiveStep ==
    [][Iterates /\ step > 0 => stop - current' < stop - current]_vars

\* a loop that does not end: after more iterations than the widest range
\* has units, current is where it started
C25_StillAtStart ==
    /\ InWhile
    /\ Len(intervals) > MaxVal
    /\ current = start
    /\ current < stop

-----------------------------------------------------------------------------
(* The windows and the skeleton built from their interval dict *)

\* the skeleton create_empty_zarr builds from the interval dict
Skeleton == create_empty_ds(dimensions, <<"temp">>)

\* the number of cells of a variable of a dataset
CellCount(stored) == Cardinality(IndexTuples(Shape(stored)))

\* the index tuples of the windows are pairwise distinct, each lies within
\* the skeleton, and the skeleton has one cell per window
WindowsFillSkeleton ==
    /\ \A m1, m2 \in 1..Len(dims_with_indices) :
          m1 # m2 => dims_with_indices[m1] # dims_with_indices[m2]
    /\ \A m \in 1..Len(dims_with_indices) :
          InBounds(Skeleton.ds,
                   ResolveIndex(Skeleton.ds, dims_with_indices[m]))
    /\ CellCount(Skeleton.ds) = Len(dims_with_indices)

\* C26: for every resampler and dataset, the index tuples define_windows
\* returns are pairwise distinct and each lies within the shape of the
\* skeleton that create_empty_zarr builds from the returned interval dict,
\* whose cell count equals the number of windows; hence on a freshly
\* created destination write_zarr_batch never raises an out-of-bounds
\* error and no two windows write the same cell.
C26_WindowsFillSkeleton ==
    pc = "windows" => Skeleton.ok /\ WindowsFillSkeleton

\* the same wherever the skeleton can be built at all
C26_WindowsFillBuiltSkeleton ==
    pc = "windows" /\ Skeleton.ok => WindowsFillSkeleton

\* delete_zarr is called: check_zarr_exists has just answered True for the
\* same path on the same store
DeleteCalled == pc = "delete"

\* what a following check_zarr_exists(dest_zarr) answers when no probe fails
FollowingCheck == s3'[FullPath(dest_zarr)] = "dir"

\* C27: check_zarr_exists and delete_zarr resolve a relative path to the
\* same store object: when check_zarr_exists(p) has answered True,
\* delete_zarr(p) does not fail with FileNotFoundError, and when it returns
\* the store is removed, so that a following check_zarr_exists(p) answers
\* False.
C27_DeleteResolvesAsCheck ==
    [][DeleteCalled =>
          /\ exists
          /\ s3[BarePath(dest_zarr)] # "absent"
          /\ (pc' = "create" => ~FollowingCheck)]_vars

\* delete_zarr is only called after check_zarr_exists answered True, and
\* when it returns, the object at the path without the bucket is gone
C27_DeleteRemovesBarePath ==
    [][DeleteCalled =>
          /\ exists
          /\ s3[FullPath(dest_zarr)] = "dir"
          /\ (pc' = "create" => s3'[BarePath(dest_zarr)] = "absent")]_vars

\* write_zarr_batch has ended, by returning or by raising
WriteEnded == WriteCalled /\ pc = "call_done"

\* the cells of the written variable that held a number before the call
NumberCells ==
    {c \in DOMAIN prev.vars[call.variable_name] :
        prev.vars[call.variable_name][c] # NaN}

\* C28: write_zarr_batch never replaces a non-NaN value of the destination
\* by NaN: a cell that held a number before the call holds a number after
\* it, and a cell addressed by NaN entries only holds the value it had
\* before the call, also when other entries of the batch are not NaN.
C28_NaNEntriesLeaveCells ==
    WriteEnded =>
        \A c \in NumberCells :
            /\ zarr.vars[call.variable_name][c] # NaN
            /\ (\A b \in PairsOf(c) : call.batch_values[b] = NaN) =>
                   zarr.vars[call.variable_name][c]
                       = prev.vars[call.variable_name][c]

\* a cell that held a number holds NaN after the call only if the last
\* pair addressing it carries NaN and another entry of the batch does not
C28_NaNOnlyFromMixedBatch ==
    WriteEnded =>
        \A c \in NumberCells :
            zarr.vars[call.variable_name][c] = NaN =>
                /\ PairsOf(c) # {}
                /\ call.batch_values[LastOf(PairsOf(c))] = NaN
                /\ ~EveryValueNaN

\* down_scale_on_the_fly has generated the centers of its first specs
CentersGenerated ==
    /\ call.op = "down_scale_on_the_fly"
    /\ pc \in {"otf_loop", "call_done"}
    /\ mem # <<>>

\* the spec the e-th entry of new_coords was generated from
SpecOf(e) == call.resampler[e]

\* C29: for every spec with start < stop and step > 0, every new
\* coordinate center generated for its dimension lies within the selection
\* bound [start, stop], also when stop - start is no multiple of step.
C29_CentersWithinBound ==
    CentersGenerated =>
        \A e \in 1..Len(mem.new_coords) :
            (SpecOf(e).range[1] < SpecOf(e).range[2] /\ SpecOf(e).step > 0) =>
                \A c \in 1..Len(mem.new_coords[e].coords) :
                    /\ mem.new_coords[e].coords[c] >= Whole(SpecOf(e).range[1])
                    /\ mem.new_coords[e].coords[c] <= Whole(SpecOf(e).range[2])

\* for those specs every center lies above start and less than half a step
\* beyond stop, and within [start, stop] when step divides stop - start
C29_CentersWithinHalfStep ==
    CentersGenerated =>
        \A e \in 1..Len(mem.new_coords) :
            (SpecOf(e).range[1] < SpecOf(e).range[2] /\ SpecOf(e).step > 0) =>
                \A c \in 1..Len(mem.new_coords[e].coords) :
                    /\ mem.new_coords[e].coords[c] > Whole(SpecOf(e).range[1])
                    /\ mem.new_coords[e].coords[c]
                          < Whole(SpecOf(e).range[2]) + SpecOf(e).step
                    /\ (SpecOf(e).range[2] - SpecOf(e).range[1])
                             % SpecOf(e).step = 0 =>
                          mem.new_coords[e].coords[c]
                              < Whole(SpecOf(e).range[2])

\* the dimensions the resampler names
ResampledNames == {resampler[i].dimension : i \in 1..Len(resampler)}

\* the position of a dimension in a stored dataset
DimPos(stored, name) ==
    CHOOSE d \in 1..Len(stored.dims) : stored.dims[d].name = name

\* the window's interval on the dimension has two elements
IsPairInterval(window, name) ==
    window[name].kind = "list" /\ Len(window[name].v) = 2

\* the skeleton is built and holds, at the window's index on the
\* dimension, the midpoint of the window's interval on it
HoldsCenter(m, name) ==
    /\ Skeleton.ok
    /\ Skeleton.ds.dims[DimPos(Skeleton.ds, name)]
           .coords[dims_with_indices[m][name] + 1]
         = Frac(dims_with_coords[m][name].v[1]
                    + dims_with_coords[m][name].v[2], 2)

\* the windows with a two-element interval on a resampled dimension
PairWindows ==
    {w \in (1..Len(dims_with_coords)) \X ResampledNames :
        IsPairInterval(dims_with_coords[w[1]], w[2])}

\* C30: for every window of define_windows and every resampled dimension
\* with 2-element intervals, the skeleton built from the returned interval
\* dict holds at the window's index on that dimension the midpoint of the
\* window's interval on it, with invert false and with invert true.
C30_SkeletonHoldsWindowCenters ==
    pc = "windows" => \A w \in PairWindows : HoldsCenter(w[1], w[2])

\* where the skeleton can be built, it holds the midpoint of every
\* two-element interval at the window's index
C30_BuiltSkeletonHoldsWindowCenters ==
    (pc = "windows" /\ Skeleton.ok) =>
        \A w \in PairWindows : HoldsCenter(w[1], w[2])

\* an inverted dimension of two intervals whose skeleton is built
C30_InvertedBuilt ==
    /\ pc = "windows" /\ Skeleton.ok
    /\ resampler[1].invert
    /\ \E w \in PairWindows :
          w[2] = resampler[1].dimension /\ dims_with_indices[w[1]][w[2]] = 1

====
